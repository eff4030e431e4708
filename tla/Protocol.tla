------------------------------ MODULE Protocol ------------------------------
(***************************************************************************)
(* Frames of smdb-proto and what smdb-wire answers to them.  A frame keeps *)
(* its tag, the request_id it carries (0 when its message has no such      *)
(* field), for a rejection its code, and for a result the names of the     *)
(* fields of its payload.                                                  *)
(***************************************************************************)
EXTENDS Naturals, Sequences

ClientTags == {"Startup", "Auth", "DefineMachine", "Transition", "Current", "History",
               "Subscribe", "Ack", "Unsubscribe", "Ping", "Terminate"}
ServerTags == {"AuthOk", "AuthError", "Ready", "Result", "Rejection", "ChangeRecord",
               "Notice", "Error", "Pong"}

(* A frame a client sends.  Its body is "ok", "garbled" (it does not       *)
(* decode), or, in the handshake, "refused" (a version or a token that is  *)
(* not accepted); id is the subscription it names, if any.                 *)
ClientFrame(tag, body, id) == [tag |-> tag, body |-> body, id |-> id]

ServerFrame(tag, request_id) == [tag |-> tag, request_id |-> request_id, code |-> "", fields |-> {}]

(* ErrorMessage has a message and a fatal flag, and no request_id. *)
make_error_frame == ServerFrame("Error", 0)

-----------------------------------------------------------------------------
(* What Engine::transition reports.  An undefined machine is an error of   *)
(* the storage, which `?` turns into EngineError::Storage.                 *)
Outcomes == {"Ok", "IllegalTransition", "GuardFailed", "VersionConflict",
             "UndefinedMachine", "StorageFailure", "ShuttingDown"}

EngineError(outcome) ==
    IF outcome \in {"UndefinedMachine", "StorageFailure"} THEN "Storage" ELSE outcome

RejectionCode(error) ==
    CASE error = "IllegalTransition" -> "illegal_transition"
      [] error = "GuardFailed" -> "guard_failed"
      [] error = "VersionConflict" -> "version_conflict"
      [] error \in {"UnknownMachine", "MachineNotFound"} -> "unknown_machine"
      [] error = "UnknownEntity" -> "unknown_entity"
      [] OTHER -> "internal_error"

make_rejection_frame(request_id, outcome) ==
    [ServerFrame("Rejection", request_id) EXCEPT !.code = RejectionCode(EngineError(outcome))]

(* Payloads, by the names of their fields; an array is {"[]"}. *)
ResultPayload(tag) ==
    CASE tag = "Transition" -> {"entity_id", "machine", "from", "state", "version",
                                "transition_id", "sequence", "ts"}
      [] tag = "Current" -> {"entity_id", "machine", "current_state", "version",
                             "updated_at", "created_at"}
      [] tag = "History" -> {"[]"}
      [] tag = "DefineMachine" -> {"ok"}
      [] tag = "Subscribe" -> {"subscription_id", "ok"}

ResultFrame(tag, request_id) ==
    [ServerFrame("Result", request_id) EXCEPT !.fields = ResultPayload(tag)]

(* handle_frame: the frames sent back, given what the engine reports. *)
handle_frame(frame, request_id, outcome) ==
    CASE frame.tag = "Ping" -> <<ServerFrame("Pong", 0)>>
      [] frame.tag \notin {"Ping", "DefineMachine", "Transition", "Current", "History", "Ack"} ->
            <<make_error_frame>>
      [] frame.tag # "Ping" /\ frame.body = "garbled" -> <<make_error_frame>>
      [] frame.tag = "Ack" /\ frame.body = "ok" -> <<>>
      [] OTHER -> IF outcome = "Ok" THEN <<ResultFrame(frame.tag, request_id)>>
                  ELSE IF frame.tag = "Transition"
                  THEN <<make_rejection_frame(request_id, outcome)>>
                  ELSE <<make_error_frame>>
=============================================================================
