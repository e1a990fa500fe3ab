---------------------------- MODULE MCServices ----------------------------
(* Small instances of the services. *)
EXTENDS Services

\* Two tabs name ann and bob, then cid in place of ann, then one name only.
MCNamesOf == [s \in AwardSaves |-> CASE s = "both" -> <<"ann", "bob">> [] s = "cid" -> <<"cid", "bob">>
                                     [] OTHER -> <<"ann">>]
MCQuantityOf == [e \in Edits |-> IF e = "less" THEN 1 ELSE 3]

\* showAgain carries the mode as the remote does outside the ceremony.
MCModeOf == [c \in Commands |-> IF c \in {"toCeremony", "showAgain"} THEN "ceremony" ELSE None]
MCAwardOf == [c \in Commands |-> IF c \in {"showAward", "showAgain"} THEN "award" ELSE None]

\* Link one jar, link another, unlink, reopen.
MCTouches == [u \in Updates |-> CASE u = "a" -> "l1" [] u = "b" -> "l2" [] u = "c" -> None [] OTHER -> Keep]
MCSets == [u \in Updates |-> IF u = "d" THEN "ACTIVE" ELSE Keep]
=============================================================================
