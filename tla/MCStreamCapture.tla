-------------------------- MODULE MCStreamCapture --------------------------
(***************************************************************************)
(* Instances of StreamCapture for TLC: which runs of szr are captured.     *)
(***************************************************************************)
EXTENDS StreamCapture

Options == [full : BOOLEAN, reducer : BOOLEAN, pref : Prefs, early : BOOLEAN,
            retain : BOOLEAN, onFailure : BOOLEAN, benign : BOOLEAN]

(* Without a reducer there is no preference and nothing stops early; the    *)
(* profiles with a benign exit code, the search commands', capture all.    *)
Reachable == {o \in Options : /\ ~o.reducer => o.pref = "both" /\ ~o.early
                              /\ o.benign => /\ o.reducer /\ o.full
                                             /\ o.pref = "stdout_first"}

(* Every way of reducing the streams, no tee; a full capture never stops    *)
(* early, whatever is configured.                                          *)
ReducerProfiles == {o \in Reachable : /\ o.reducer /\ ~o.retain /\ ~o.onFailure
                                      /\ o.full => ~o.early}

(* The reducer and the tee together, as a default configuration runs. *)
DefaultProfiles == {o \in Reachable : o.reducer /\ o.retain /\ o.onFailure /\ o.early}

(* Every way of keeping the tee, the streams not reduced; and one where    *)
(* the goroutines share the reducer and the tee.                           *)
TeeProfiles == {o \in Reachable : ~o.reducer}
               \cup {o \in DefaultProfiles : o.pref = "both" /\ ~o.full}
=============================================================================
