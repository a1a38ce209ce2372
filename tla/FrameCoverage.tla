---------------------------- MODULE FrameCoverage ----------------------------
(***************************************************************************)
(* What the coverage report of a DWG read promises (DRW_DwgFrameCoverage-  *)
(* Report, "every HANDLE-map source frame reached one compatible terminal  *)
(* publication"): each frame of the handle map is settled once, as         *)
(* published or as lost, for good; one report ends the read, and it says   *)
(* "complete" only of a read that published every frame.                   *)
(***************************************************************************)

CONSTANT Frames      \* the frames the handle map lists

VARIABLES outcome,   \* what became of each frame
          report     \* the report, once it is made

coverageVars == <<outcome, report>>

Init == /\ outcome = [f \in Frames |-> "open"]
        /\ report = "none"

(* Any number of frames that are still open are settled in one step. *)
Settle == /\ report = "none"
          /\ outcome' \in [Frames -> {"open", "published", "lost"}]
          /\ \A f \in Frames : outcome[f] # "open" => outcome'[f] = outcome[f]
          /\ UNCHANGED report

(* The report counts the frames that are still open as lost. *)
Report == /\ report = "none"
          /\ outcome' = [f \in Frames |->
                           IF outcome[f] = "open" THEN "lost" ELSE outcome[f]]
          /\ report' \in {"complete", "partial"}
          /\ report' = "complete" => \A f \in Frames : outcome[f] = "published"

Next == Settle \/ Report

Spec == Init /\ [][Next]_coverageVars

==============================================================================
