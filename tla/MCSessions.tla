----------------------------- MODULE MCSessions -----------------------------
(***************************************************************************)
(* Three sessions: the first has a person in its roster, with a nickname;  *)
(* the second accepts the uid; to the third neither name means anything.   *)
(***************************************************************************)
EXTENDS Sessions

MCTargets == {"uid", "ola", "__contacts"}

MCUidOf == [s \in Sessions |-> [t \in MCTargets |->
              IF <<s, t>> \in {<<1, "uid">>, <<2, "uid">>, <<1, "ola">>} THEN "uid" ELSE "none"]]

MCNickOf == [s \in Sessions |-> [t \in MCTargets |->
               IF MCUidOf[s][t] = "uid" /\ s = 1 THEN "ola" ELSE MCUidOf[s][t]]]
=============================================================================
