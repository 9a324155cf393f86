---------------------------- MODULE EventStream ----------------------------
(***************************************************************************)
(* web/src/lib/api.ts: connectStream and connectLive, the browser's event  *)
(* stream that reopens itself for as long as its page is mounted.          *)
(*                                                                         *)
(* Durations are compared, not counted: the stall watchdog may fire when   *)
(* the longest silence there can be reaches its threshold.  The timer that *)
(* outlives an ended fetch is left out: it finds "reconnecting" and        *)
(* nothing to abort.                                                       *)
(***************************************************************************)
EXTENDS Naturals

CONSTANTS
    Interval,   \* the server's sample interval, in seconds
    Heartbeat,  \* heartbeatInterval
    Stall       \* STALL_MS

ASSUME EventStreamAssumption ==
    Interval \in Nat \ {0} /\ Heartbeat \in Nat \ {0} /\ Stall \in Nat \ {0}

VARIABLES
    status,     \* ConnectionState
    fetch,      \* of the current generation: "none", "asking" or "reading"
    reopen,     \* retryTimer is set
    stallMs,
    conn,       \* the other end: "none", "live" (a handler writes to it), "ended"
                \* (it returned, the browser has yet to read so), "flood" (an
                \* event longer than the browser's buffer is on the way) or
                \* "dead" (a half-open connection)
    greeting,   \* the hello of this connection: "awaited", "read" or "skipped"
    net         \* the server can be reached

streamVars == <<status, fetch, reopen, stallMs, conn, greeting, net>>

StreamInit ==
    /\ status = "connecting" /\ fetch = "asking" /\ reopen = FALSE
    /\ stallMs = Stall
    /\ conn = "none" /\ greeting = "awaited"
    /\ net \in BOOLEAN

-----------------------------------------------------------------------------
(***************************************************************************)
(* The end of the current generation: the reopening is scheduled.          *)
(***************************************************************************)
GenerationEnds ==
    /\ fetch' = "none" /\ conn' = "none" /\ greeting' = "awaited"
    /\ reopen' = TRUE
    /\ UNCHANGED <<stallMs, net>>

Open ==
    /\ reopen
    /\ reopen' = FALSE /\ fetch' = "asking"
    /\ UNCHANGED <<status, stallMs, conn, greeting, net>>

(***************************************************************************)
(* The server takes the stream; the response arrives; the request fails,   *)
(* is refused (a 401 leaves the status alone) or gets something else.      *)
(***************************************************************************)
StreamAccepted ==
    /\ fetch = "asking" /\ conn = "none" /\ net
    /\ conn' = "live"
    /\ UNCHANGED <<status, fetch, reopen, stallMs, greeting, net>>

ResponseArrives ==
    /\ fetch = "asking" /\ conn \in {"live", "ended", "flood"} /\ net
    /\ fetch' = "reading" /\ status' = "open"
    /\ UNCHANGED <<reopen, stallMs, conn, greeting, net>>

RequestFails ==
    /\ fetch = "asking" /\ conn = "none"
    /\ GenerationEnds
    /\ status' = "reconnecting" \/ UNCHANGED status

(* Mutant: the hello does not adapt the watchdog. *)
HelloIgnored ==
    /\ fetch = "reading" /\ conn = "live" /\ net /\ greeting = "awaited"
    /\ greeting' = "read"
    /\ UNCHANGED <<status, fetch, reopen, stallMs, conn, net>>

(***************************************************************************)
(* hello: setStallMs.                                                      *)
(***************************************************************************)
Hello ==
    /\ fetch = "reading" /\ conn = "live" /\ net /\ greeting = "awaited"
    /\ greeting' = "read"
    /\ stallMs' = IF 4 * Interval > Stall THEN 4 * Interval ELSE Stall
    /\ UNCHANGED <<status, fetch, reopen, conn, net>>

(***************************************************************************)
(* A hello that cannot be marshalled is not sent (the handler's event); an *)
(* event may be longer than consume's buffer; the handler returns; the     *)
(* connection dies without a word.                                         *)
(***************************************************************************)
HelloSkipped ==
    /\ conn = "live" /\ greeting = "awaited"
    /\ greeting' = "skipped"
    /\ UNCHANGED <<status, fetch, reopen, stallMs, conn, net>>

EventTooLong ==
    /\ conn = "live"
    /\ conn' = "flood"
    /\ UNCHANGED <<status, fetch, reopen, stallMs, greeting, net>>

HandlerReturns ==
    /\ conn = "live"
    /\ conn' = "ended"
    /\ UNCHANGED <<status, fetch, reopen, stallMs, greeting, net>>

LinkDies ==
    /\ conn \in {"live", "ended", "flood"}
    /\ conn' = "dead"
    /\ UNCHANGED <<status, fetch, reopen, stallMs, greeting, net>>

(* Mutant: the end of a stream that did not throw is not surfaced. *)
StreamEndsUnseen ==
    /\ fetch = "reading" /\ conn \in {"ended", "flood"} /\ net
    /\ GenerationEnds
    /\ UNCHANGED status

(* Mutant: only an error schedules the reopening. *)
StreamEndsForGood ==
    /\ fetch = "reading" /\ conn \in {"ended", "flood"} /\ net
    /\ fetch' = "none" /\ conn' = "none" /\ greeting' = "awaited"
    /\ status' = "reconnecting"
    /\ UNCHANGED <<reopen, stallMs, net>>

(***************************************************************************)
(* The browser reads the end of the stream, an error on it, or more than   *)
(* its buffer holds.                                                       *)
(***************************************************************************)
StreamEnds ==
    /\ fetch = "reading" /\ conn \in {"ended", "flood"} /\ net
    /\ GenerationEnds
    /\ status' = "reconnecting"

(***************************************************************************)
(* The longest silence of a stream that is well: the hello comes at once,  *)
(* unless it is skipped, then samples and heartbeats.  Without bytes the   *)
(* silence is endless.                                                     *)
(***************************************************************************)
Silence ==
    IF greeting = "awaited" THEN 0
    ELSE IF Interval < Heartbeat THEN Interval ELSE Heartbeat

StallFires ==
    /\ fetch # "none"
    /\ \/ conn \in {"none", "dead"} \/ ~net
       \/ Silence >= stallMs
    /\ GenerationEnds
    /\ status' = "reconnecting"

NetChanges ==
    /\ net' = ~net
    /\ UNCHANGED <<status, fetch, reopen, stallMs, conn, greeting>>
=============================================================================
