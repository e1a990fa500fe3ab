------------------------------ MODULE Services ------------------------------
(***************************************************************************)
(* The small services side by side.  They share no row and no field, so a  *)
(* behaviour is one of theirs (turn) while the others stay as they start.  *)
(***************************************************************************)
EXTENDS Naturals, Sequences

CONSTANTS
    Links, Polls, People,                                               \* SiteLogin
    Adds, Deletes, Defaults, MaxRecipients,                             \* SavedRecipients
    Groups, Products, Deletions, Saves,                                 \* CuratorGroups
    AwardSaves, NamesOf, Edits, QuantityOf, ShariDeletes, Quantity,     \* ShariAwards
    Commands, ModeOf, AwardOf, OneOff, MaxPolls, MaxReloads,            \* StageScreen
    JarLinks, Updates, Touches, Sets, Types,                            \* JarSync
    FailuresBeforeAlert, BackoffSteps,
    Broadcasts, Recipients, MaxAttempts,                                \* BroadcastDelivery
    Forms, OnSite, Grace, PendingLife, MaxTime,                         \* UploadCollector
    MaxRestarts, None, Keep

ASSUME ServicesConstants ==
    /\ None \notin Links \cup Polls \cup JarLinks \cup Broadcasts \cup {Keep, "hide"}
    /\ Adds \cap Deletes = {} /\ Adds \cap Defaults = {} /\ Deletes \cap Defaults = {}
    /\ \A s \in AwardSaves : Len(NamesOf[s]) \in Nat
    /\ Edits \cap ShariDeletes = {} /\ QuantityOf \in [Edits -> Nat] /\ Quantity \in Nat
    /\ Touches \in [Updates -> JarLinks \cup {None, Keep}] /\ Keep \notin JarLinks
    /\ MaxRecipients \in Nat /\ MaxAttempts \in Nat /\ FailuresBeforeAlert \in Nat
    /\ Grace \in Nat /\ PendingLife \in Nat /\ MaxTime \in Nat

VARIABLES
    turn,
    link, poll, revoked,
    rows, chosen, nextId, tx, savedRaced,
    groups, groupsOf, deletion, productSave, curated, groupsRaced,
    shara, awards, save, edit, shariRaced,
    screenState, command, answers, last, shown, fired, reloads, stamps, overlapped, missed,
    row, sync, memory, update, told, jarRaced, jarRestarts,
    status, call, delivering, delivery, got, blocked, stuck, callsRaced, botRestarts,
    file, upload, form, pass, used, deleted, hurried, now

Login == INSTANCE SiteLogin
Saved == INSTANCE SavedRecipients WITH next <- nextId, raced <- savedRaced
Curators == INSTANCE CuratorGroups WITH raced <- groupsRaced, save <- productSave
Shari == INSTANCE ShariAwards WITH Saves <- AwardSaves, Deletes <- ShariDeletes, raced <- shariRaced
Screen == INSTANCE StageScreen
Jar == INSTANCE JarSync WITH Links <- JarLinks, raced <- jarRaced, restarts <- jarRestarts
Sending == INSTANCE BroadcastDelivery WITH raced <- callsRaced, restarts <- botRestarts
Files == INSTANCE UploadCollector

\* The screen's page starts with no state, which is not a state.
ASSUME NoneIsNoState == None \notin Screen!State

LoginVars == <<link, poll, revoked>>
SavedVars == <<rows, chosen, nextId, tx, savedRaced>>
CuratorsVars == <<groups, groupsOf, deletion, productSave, curated, groupsRaced>>
ShariVars == <<shara, awards, save, edit, shariRaced>>
ScreenVars == <<screenState, command, answers, last, shown, fired, reloads, stamps, overlapped, missed>>
JarVars == <<row, sync, memory, update, told, jarRaced, jarRestarts>>
SendingVars == <<status, call, delivering, delivery, got, blocked, stuck, callsRaced, botRestarts>>
FilesVars == <<file, upload, form, pass, used, deleted, hurried, now>>

Init ==
    /\ turn \in {"login", "recipients", "curators", "shari", "screen", "jar", "broadcast", "uploads"}
    /\ Login!Init /\ Saved!Init /\ Curators!Init /\ Shari!Init
    /\ Screen!Init /\ Jar!Init /\ Sending!Init /\ Files!Init

LoginMoves ==
    /\ turn = "login" /\ Login!Next
    /\ UNCHANGED <<turn, SavedVars, CuratorsVars, ShariVars, ScreenVars, JarVars, SendingVars, FilesVars>>

SavedMoves ==
    /\ turn = "recipients" /\ Saved!Next
    /\ UNCHANGED <<turn, LoginVars, CuratorsVars, ShariVars, ScreenVars, JarVars, SendingVars, FilesVars>>

CuratorsMoves ==
    /\ turn = "curators" /\ Curators!Next
    /\ UNCHANGED <<turn, LoginVars, SavedVars, ShariVars, ScreenVars, JarVars, SendingVars, FilesVars>>

ShariMoves ==
    /\ turn = "shari" /\ Shari!Next
    /\ UNCHANGED <<turn, LoginVars, SavedVars, CuratorsVars, ScreenVars, JarVars, SendingVars, FilesVars>>

ScreenMoves ==
    /\ turn = "screen" /\ Screen!Next
    /\ UNCHANGED <<turn, LoginVars, SavedVars, CuratorsVars, ShariVars, JarVars, SendingVars, FilesVars>>

JarMoves ==
    /\ turn = "jar" /\ Jar!Next
    /\ UNCHANGED <<turn, LoginVars, SavedVars, CuratorsVars, ShariVars, ScreenVars, SendingVars, FilesVars>>

SendingMoves ==
    /\ turn = "broadcast" /\ Sending!Next
    /\ UNCHANGED <<turn, LoginVars, SavedVars, CuratorsVars, ShariVars, ScreenVars, JarVars, FilesVars>>

FilesMoves ==
    /\ turn = "uploads" /\ Files!Next
    /\ UNCHANGED <<turn, LoginVars, SavedVars, CuratorsVars, ShariVars, ScreenVars, JarVars, SendingVars>>

Next ==
    \/ LoginMoves \/ SavedMoves \/ CuratorsMoves \/ ShariMoves
    \/ ScreenMoves \/ JarMoves \/ SendingMoves \/ FilesMoves

vars == <<turn, LoginVars, SavedVars, CuratorsVars, ShariVars, ScreenVars, JarVars, SendingVars, FilesVars>>

Spec == Init /\ [][Next]_vars

\* One session for each login link, and none for a person who disowned it (SiteLogin).
OneSession == Login!OneSession

\* One default among a customer's recipients (SavedRecipients).
OneDefault == Saved!OneDefault

\* A curator product is not opened by deleting groups (CuratorGroups).
CuratorsOnly == Curators!CuratorsOnly

\* Certificates stand until their place is given away (ShariAwards).
CertificatesStand == Shari!CertificatesStand

\* One-off commands fire once and the screen shows what it was told (StageScreen).
OneOffsFireOnce == Screen!OneOffsFireOnce

\* A synced amount is that of the linked jar (JarSync).
SyncedShowsItsJar == Jar!SyncedShowsItsJar

\* A late answer of Monobank changes nothing (JarSync).
LateAnswersIgnored == Jar!LateAnswersIgnored

\* One broadcast at a time, and none left in SENDING without a reason (BroadcastDelivery).
OneAtATime == Sending!OneAtATime

\* A file in use is not deleted (UploadCollector).
UsedFilesStay == Files!UsedFilesStay

\* What every call of every service may rely on between two of its steps.
IInv ==
    /\ Login!IInv /\ Saved!IInv /\ Curators!IInv /\ Shari!IInv
    /\ Screen!IInv /\ Jar!IInv /\ Sending!IInv /\ Files!IInv
=============================================================================
