------------------------------- MODULE MCAgent -------------------------------
(***************************************************************************)
(* Small instances of Agent: the kinds of message the stages tell apart.   *)
(***************************************************************************)
EXTENDS Agent

\* A question that only the model plans for.
Asking == [wants |-> {}, evidence |-> {"vibration"}, variant |-> "none", recommended |-> FALSE,
           asks |-> FALSE, sure |-> FALSE, partial |-> TRUE, need |-> "equipment", depth |-> "unspecified"]
Strict == [Asking EXCEPT !.evidence = {"vibration", "alarm"}, !.partial = FALSE]
Unplaced == [Asking EXCEPT !.evidence = {}, !.need = "none"]
Reviewing == [Asking EXCEPT !.wants = {"overview"}, !.evidence = {"asset", "health", "alarm"}, !.partial = FALSE]
Watching == [Asking EXCEPT !.wants = {"info", "alarm", "health"}, !.evidence = {}, !.need = "none"]
Listing == [Asking EXCEPT !.wants = {"query"}, !.evidence = {}, !.need = "none"]
Comparing == [Listing EXCEPT !.wants = {"several"}]
Explaining == [Listing EXCEPT !.wants = {"content"}]
PointRecipe == [Asking EXCEPT !.evidence = {"diagnosis_result"}, !.variant = "point", !.recommended = TRUE,
                              !.asks = TRUE, !.sure = TRUE, !.need = "point"]
DeviceRecipe == [PointRecipe EXCEPT !.variant = "device", !.need = "equipment", !.partial = FALSE]
Diagnosing == [DeviceRecipe EXCEPT !.recommended = FALSE, !.depth = "detailed"]
Probing == [Asking EXCEPT !.depth = "detailed", !.evidence = {"diagnosis_result"}]

MCIntent == {Asking, Strict, Unplaced, Reviewing, Watching, Listing, Comparing, Explaining,
             PointRecipe, DeviceRecipe, Diagnosing, Probing}
MCAsking == {Asking}
==============================================================================
