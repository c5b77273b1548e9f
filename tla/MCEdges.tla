------------------------------- MODULE MCEdges --------------------------------
(***************************************************************************)
(* Four parts that share no state, checked in one run; the initial state   *)
(* chooses the part that moves.                                            *)
(*                                                                         *)
(* Evidence: a per-user request of the first release with two recipients,  *)
(* a value request of a later one, and one without options created now.    *)
(* ClientStore: two shells over a new or an older release's configuration. *)
(* Access: three overlapping calls on one per-user request of two users,   *)
(* with two issuer tokens of which one holds only a right to cancel.       *)
(* PushPath: two sends at once, with either provider or none, a relay for  *)
(* this app or another, and a clock that ages a provider token twice over. *)
(***************************************************************************)
EXTENDS Evidence, ClientStore, Access, PushPath, TLC

CONSTANTS c1, c2, c3, p1, p2

VARIABLE part

MCCards == {"old", "value", "new"}
MCContent ==
    [k \in MCCards |->
        [recips |-> IF k = "new" THEN <<"u1">> ELSE <<"u1", "u2">>,
         perUser |-> k = "old", field |-> k = "value",
         opts |-> CASE k = "new" -> {}
                    [] k = "old" -> {"approve", "deny"}
                    [] k = "value" -> {"approve"},
         body |-> "b", extra |-> "e"]]
MCRelease == [old |-> "plain", value |-> "tagged", new |-> "current"]
MCSignerUser == [d1 |-> "u1", d2 |-> "u2", dx |-> "u1"]
MCKindOf == [approve |-> "approve", deny |-> "deny", dismiss |-> "dismiss"]

MCOldId == [i \in {"x", "y"} |-> IF i = "x" THEN "old_x" ELSE "old_y"]

MCUserOf == [d1 |-> "u1", d2 |-> "u2", bot |-> "nobody", aux |-> "nobody"]
MCScopes == [bot |-> {<<"write", "ch">>, <<"cancel", "ch">>}, aux |-> {<<"cancel", "ch">>}]
MCChannelOf == [r \in {"r"} |-> "ch"]
On(ops, as, on) == [op : ops, as : as, on : on]
MCOffers ==
    c1 :> (On({"create"}, {"bot", "aux"}, {"r"}) \cup On({"issue_token"}, {"admin"}, {"aux"})
           \cup On({"create_user"}, {"admin"}, {"d2"}) \cup On({"enroll"}, {"nobody"}, {"d2"})
           \cup On({"preferences", "subscription"}, {"d1"}, {"d1"}))
    @@ c2 :> (On({"decide"}, {"d1", "d2"}, {"r"}) \cup On({"cancel"}, {"bot", "aux"}, {"r"})
              \cup On({"revoke_device", "delete_user"}, {"admin"}, {"d1"}) \cup On({"revoke_token"}, {"admin"}, {"bot"})
              \cup On({"push_token"}, {"d1"}, {"d1"}) \cup On({"delete_channel"}, {"admin"}, {"r"})
              \cup On({"expire"}, {"server"}, {"r"}))
    @@ c3 :> (On({"wait"}, {"bot", "d1", "aux"}, {"r"}) \cup On({"expire"}, {"server"}, {"r"}))

MCTargets ==
    [provider : {Apple}, platform : {"ios", "macos"}, app : {"app", "other"}]

PathQuiet == route = "none" /\ bundle = ServerApp

Init ==
    /\ part \in {"evidence", "store", "access", "path"}
    /\ EvidenceInit /\ StoreInit /\ AccessInit /\ PathInit
    /\ part # "store" => inFile /\ ~primary.there
    /\ part # "path" => PathQuiet

Next ==
    \/ part = "evidence" /\ EvidenceNext /\ UNCHANGED <<part, storeVars, accessVars, pathVars>>
    \/ part = "store" /\ StoreNext /\ UNCHANGED <<part, evidenceVars, accessVars, pathVars>>
    \/ part = "access" /\ AccessNext /\ UNCHANGED <<part, evidenceVars, storeVars, pathVars>>
    \/ part = "path" /\ PathNext /\ UNCHANGED <<part, evidenceVars, storeVars, accessVars>>

Spec == Init /\ [][Next]_<<part, evidenceVars, storeVars, accessVars, pathVars>>

\* The two sends are interchangeable.
Symmetry == Permutations(Pushes)
==============================================================================
