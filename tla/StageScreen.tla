---------------------------- MODULE StageScreen ----------------------------
(***************************************************************************)
(* The stage screen of a nomination and its remote control: operators send *)
(* commands that change EventVoting.screenState (voting.service.ts), the   *)
(* screen in the hall polls that state and applies what changed            *)
(* (client/web/app/screen/voting/[id]/page.tsx).                           *)
(*                                                                         *)
(* A command is one updateScreenState call; it reads the state and writes  *)
(* it back whole.  The state carries settings that stay and the stamp of   *)
(* the last one-off command, a salute or a move to the next photo.  Of the *)
(* settings the mode and the award are modelled, the two that depend on    *)
(* each other.  The other settings, the step among them (which the page    *)
(* also resets on a new mode), the screen's own slide show, its keys and   *)
(* the stamp's revision-number coding are left out: a stamp is the         *)
(* revision its command wrote.                                             *)
(***************************************************************************)
EXTENDS Naturals, FiniteSets

CONSTANTS
    Commands,
    ModeOf,         \* [Commands -> modes, or None]
    AwardOf,        \* [Commands -> the award to show, "hide" to put it away, or None]
    OneOff,         \* the commands that fire once
    MaxPolls,       \* bound on the screen's unanswered polls
    MaxReloads,     \* bound on reloads of the screen
    None

VARIABLES
    screenState,    \* the JSON column
    command,        \* the handler of each command: what it read
    answers,        \* answers to polls on their way to the screen
    last,           \* the screen's last applied state, None after loading
    shown,          \* what the screen shows
    fired,          \* one-off commands the screen performed, by the revision that stamped them
    reloads,
    stamps,         \* history: the revisions that a one-off command wrote since the page loaded
    overlapped,     \* history: two commands were between their read and their write
    missed          \* history: a new mode came with the award the loaded page was last told of

vars == <<screenState, command, answers, last, shown, fired, reloads, stamps, overlapped, missed>>

Blank == [rev |-> 0, mode |-> None, award |-> None, stamp |-> 0]

Init ==
    /\ screenState = Blank
    /\ command = [c \in Commands |-> [pc |-> "idle", prev |-> Blank]]
    /\ answers = {}
    /\ last = None
    /\ shown = [mode |-> None, award |-> None]
    /\ fired = [r \in 1..Cardinality(Commands) |-> 0]
    /\ reloads = 0 /\ stamps = {} /\ overlapped = FALSE /\ missed = FALSE

(***************************************************************************)
(* updateScreenState                                                       *)
(***************************************************************************)
ReadState(c) ==
    /\ command[c].pc = "idle"
    /\ command' = [command EXCEPT ![c] = [pc |-> "writing", prev |-> screenState]]
    /\ overlapped' = (overlapped \/ \E d \in Commands \ {c} : command[d].pc = "writing")
    /\ UNCHANGED <<screenState, answers, last, shown, fired, reloads, stamps, missed>>

\* A partner award is shown on its own; switching mode puts it away.
NextState(c, prev) ==
    [rev |-> prev.rev + 1,
     mode |-> IF ModeOf[c] # None THEN ModeOf[c] ELSE prev.mode,
     award |-> IF AwardOf[c] # None THEN AwardOf[c]
               ELSE IF ModeOf[c] # None THEN "hide" ELSE prev.award,
     stamp |-> IF c \in OneOff THEN prev.rev + 1 ELSE prev.stamp]

WriteState(c) ==
    /\ command[c].pc = "writing"
    /\ screenState' = NextState(c, command[c].prev)
    /\ command' = [command EXCEPT ![c] = [pc |-> "done", prev |-> Blank]]
    /\ stamps' = IF c \in OneOff THEN stamps \cup {command[c].prev.rev + 1} ELSE stamps
    /\ UNCHANGED <<answers, last, shown, fired, reloads, overlapped, missed>>

(***************************************************************************)
(* The screen                                                              *)
(***************************************************************************)
\* A poll a second, whether or not the one before was answered.
Poll ==
    /\ Cardinality(answers) < MaxPolls
    /\ answers' = answers \cup {screenState}
    /\ UNCHANGED <<screenState, command, last, shown, fired, reloads, stamps, overlapped, missed>>

Lose(st) ==
    /\ answers' = answers \ {st}
    /\ UNCHANGED <<screenState, command, last, shown, fired, reloads, stamps, overlapped, missed>>

\* Only what changed since the last applied state; a one-off fires only when it
\* arrives, not when the screen loads.
Apply(st) ==
    LET prev == IF last = None THEN Blank ELSE last
        newMode == st.mode # None /\ st.mode # prev.mode
        newAward == st.award # None /\ st.award # prev.award
    IN
    /\ last' = st
    /\ missed' = (~ newAward /\ (missed \/ (newMode /\ st.award \notin {None, "hide"})))
    /\ shown' = [mode |-> IF newMode THEN st.mode ELSE shown.mode,
                 award |-> CASE newAward -> st.award
                             [] newMode /\ ~ newAward -> "hide"
                             [] OTHER -> shown.award]
    /\ fired' = IF last # None /\ st.stamp # 0 /\ st.stamp # prev.stamp
                THEN [fired EXCEPT ![st.stamp] = @ + 1] ELSE fired

\* A slip of Receive: answers are applied in the order they come.
ReceiveAny(st) ==
    /\ answers' = answers \ {st}
    /\ Apply(st)
    /\ UNCHANGED <<screenState, command, reloads, stamps, overlapped>>

Receive(st) ==
    /\ answers' = answers \ {st}
    /\ IF last = None \/ st.rev > last.rev
       THEN Apply(st)
       ELSE UNCHANGED <<last, shown, fired, missed>>
    /\ UNCHANGED <<screenState, command, reloads, stamps, overlapped>>

Reload ==
    /\ reloads < MaxReloads
    /\ reloads' = reloads + 1
    /\ last' = None /\ answers' = {} /\ stamps' = {} /\ missed' = FALSE
    /\ shown' = [mode |-> None, award |-> None]
    /\ fired' = [r \in DOMAIN fired |-> 0]
    /\ UNCHANGED <<screenState, command, overlapped>>

Next ==
    \/ \E c \in Commands : ReadState(c) \/ WriteState(c)
    \/ Poll
    \/ \E st \in answers : Lose(st) \/ Receive(st)
    \/ Reload

Spec == Init /\ [][Next]_vars

\* As long as no two commands overlap, a one-off command fires at most once and never when the
\* screen was loaded after it ("One-off commands only fire when they arrive, not when the
\* screen (re)loads"), and a screen at the last revision shows the mode asked for; the award
\* too, unless a mode came with the award it had (apply puts the award away for the mode and
\* finds nothing new to show).  Answers to polls overtake each other and get lost.
OneOffsFireOnce == ~ overlapped =>
    /\ \A r \in DOMAIN fired : fired[r] > 0 => fired[r] = 1 /\ r \in stamps
    /\ last # None /\ last.rev = screenState.rev =>
         /\ shown.mode = screenState.mode
         /\ shown.award = screenState.award \/ missed

State == [rev : Nat, mode : {ModeOf[c] : c \in Commands} \cup {None},
          award : {AwardOf[c] : c \in Commands} \cup {None, "hide"}, stamp : Nat]

TypeOK ==
    /\ screenState \in State /\ answers \subseteq State /\ last \in State \cup {None}
    /\ command \in [Commands -> [pc : {"idle", "writing", "done"}, prev : State]]
    /\ fired \in [1..Cardinality(Commands) -> Nat]
    /\ stamps \subseteq Nat /\ overlapped \in BOOLEAN /\ missed \in BOOLEAN

\* The states somebody may still show.
Known == {screenState} \cup answers \cup ({last} \ {None})

\* One follows another: revisions are the versions of one row, a mode once set is never
\* unset, a stamp changes only to a revision of its own, written since the page loaded.
Follows(x, y) ==
    /\ x.rev = y.rev => x = y
    /\ x.rev < y.rev => /\ x.mode # None => y.mode # None
                        /\ x.award # None => y.award # None
                        /\ y.stamp # x.stamp => x.rev < y.stamp /\ y.stamp \in stamps

\* Who writes read what is written still.
WritersApart == ~ overlapped =>
    \A c \in Commands : command[c].pc = "writing" =>
        /\ command[c].prev = screenState
        /\ \A d \in Commands : command[d].pc = "writing" => c = d

\* The row has one history, and what is on its way or applied is a part of it.
OneHistory == ~ overlapped =>
    /\ \A x \in Known : x.rev <= screenState.rev /\ x.stamp <= x.rev /\ (x.award = None => x.mode = None)
    /\ \A x, y \in Known : Follows(x, y)

\* The page shows the state it applied last.
PageFollows == ~ overlapped =>
    IF last = None THEN shown = [mode |-> None, award |-> None]
    ELSE shown.mode = last.mode /\ (shown.award = last.award \/ missed)

\* What fired is behind the page.
FiredBehind == ~ overlapped =>
    \A r \in DOMAIN fired : fired[r] > 0 => last # None /\ r <= last.rev /\ fired[r] = 1 /\ r \in stamps

IInv == TypeOK /\ WritersApart /\ OneHistory /\ PageFollows /\ FiredBehind
=============================================================================
