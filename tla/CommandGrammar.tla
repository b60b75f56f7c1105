--------------------------- MODULE CommandGrammar ---------------------------
(***************************************************************************)
(* The closed grammar of the venue-command journal: which event may be     *)
(* appended to a command in which state, and the state that results.       *)
(* src/state/venue_command_repo.py keeps it as the table _TRANSITIONS,     *)
(* keyed by (state, event); here the table is read by event.  Left out are *)
(* the rows of SUBMIT_UNKNOWN, CLOSED_MARKET_UNKNOWN, SNAPSHOT_BOUND and   *)
(* POSTING, which nothing in src/ appends, and of CANCEL_DISPATCH_STARTED, *)
(* which keeps CANCEL_PENDING and is appended for entries only.            *)
(***************************************************************************)

\* command_bus.TERMINAL_STATES, also exit_safety._TERMINAL_REPLACEMENT_STATES.
TerminalStates ==
    {"CANCELLED", "FILLED", "EXPIRED", "REJECTED", "SUBMIT_REJECTED"}

\* The non-terminal states an exit command passes through.  POSTING,
\* POST_ACKED, SNAPSHOT_BOUND and SIGNED_PERSISTED are reserved in the table
\* and no code path of src/ appends the events that lead to them.
OpenStates ==
    {"INTENT_CREATED", "SUBMITTING", "ACKED", "UNKNOWN",
     "SUBMIT_UNKNOWN_SIDE_EFFECT", "PARTIAL", "CANCEL_PENDING",
     "REVIEW_REQUIRED"}

CommandStates == TerminalStates \cup OpenStates

\* The states in which an order is being placed, rests or is partly filled.
WorkingStates ==
    {"SUBMITTING", "ACKED", "UNKNOWN", "SUBMIT_UNKNOWN_SIDE_EFFECT", "PARTIAL"}

\* The states from which the table has a row for the event.
LegalFrom(event) ==
    CASE event = "SUBMIT_REQUESTED" -> {"INTENT_CREATED"}
      [] event = "SUBMIT_ACKED" -> (WorkingStates \ {"ACKED"}) \cup {"FILLED"}
      [] event = "SUBMIT_REJECTED" ->
            {"INTENT_CREATED", "SUBMITTING", "UNKNOWN",
             "SUBMIT_UNKNOWN_SIDE_EFFECT"}
      [] event = "SUBMIT_TIMEOUT_UNKNOWN" -> {"SUBMITTING", "UNKNOWN"}
      [] event = "PARTIAL_FILL_OBSERVED" ->
            WorkingStates \cup TerminalStates \cup {"REVIEW_REQUIRED"}
      [] event = "FILL_CONFIRMED" ->
            WorkingStates \cup (TerminalStates \ {"FILLED"})
                          \cup {"REVIEW_REQUIRED"}
      [] event = "CANCEL_REQUESTED" -> WorkingStates \cup {"INTENT_CREATED"}
      [] event = "CANCEL_ACKED" -> {"CANCEL_PENDING", "PARTIAL"}
      [] event \in {"CANCEL_FAILED", "CANCEL_REPLACE_BLOCKED"} ->
            {"CANCEL_PENDING"}
      [] event = "EXPIRED" -> WorkingStates \cup {"CANCEL_PENDING"}
      [] event = "REVIEW_REQUIRED" ->
            WorkingStates \cup {"INTENT_CREATED", "CANCEL_PENDING", "FILLED"}
      [] event \in {"REVIEW_CLEARED_NO_VENUE_SIDE_EFFECT",
                    "REVIEW_CLEARED_NO_VENUE_EXPOSURE",
                    "REVIEW_CLEARED_VENUE_ORDER_LIVE"} -> {"REVIEW_REQUIRED"}
      [] OTHER -> {}

\* The state that the row gives: state_after in append_event.
StateAfter(state, event) ==
    CASE event = "SUBMIT_REQUESTED" -> "SUBMITTING"
      [] event = "SUBMIT_ACKED" ->
            IF state \in {"PARTIAL", "FILLED"} THEN state ELSE "ACKED"
      [] event = "SUBMIT_REJECTED" ->
            IF state \in {"SUBMITTING", "UNKNOWN"}
            THEN "REJECTED" ELSE "SUBMIT_REJECTED"
      [] event = "SUBMIT_TIMEOUT_UNKNOWN" -> "SUBMIT_UNKNOWN_SIDE_EFFECT"
      [] event = "PARTIAL_FILL_OBSERVED" -> "PARTIAL"
      [] event = "FILL_CONFIRMED" -> "FILLED"
      [] event = "CANCEL_REQUESTED" -> "CANCEL_PENDING"
      [] event = "CANCEL_ACKED" -> "CANCELLED"
      [] event \in {"EXPIRED", "REVIEW_CLEARED_NO_VENUE_EXPOSURE"} -> "EXPIRED"
      [] event = "REVIEW_CLEARED_NO_VENUE_SIDE_EFFECT" -> "REJECTED"
      [] event = "REVIEW_CLEARED_VENUE_ORDER_LIVE" -> "ACKED"
      [] OTHER -> "REVIEW_REQUIRED"
=============================================================================
