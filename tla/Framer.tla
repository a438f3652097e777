------------------------------- MODULE Framer -------------------------------
(***************************************************************************)
(* The framing layer of the MCP bridge (internal/adapters/mcpbridge/       *)
(* framing.go): filterInput reads lines in chunks, answers the bad ones    *)
(* itself and passes the others to the SDK; framer tracks the requests     *)
(* that are in flight and drops the response of a cancelled one.           *)
(*                                                                         *)
(* A line is its kind, size and, if odd, the shape of its message; an id   *)
(* is a value and its spelling, since canonID compares texts and the SDK   *)
(* spells every id in one way.  A request is named by the number of its    *)
(* line.  The client follows the protocol with its requests: it reuses an  *)
(* id only after it has read the response.                                 *)
(***************************************************************************)
EXTENDS Integers, Sequences, FiniteSets

CONSTANTS
    Kinds,      \* kinds of lines the client sends
    Values,     \* values of ids
    Shapes,     \* messages that are no request with an id
    Spellings,  \* how the client spells them; the SDK's spelling is "plain"
    Batching,   \* whether the negotiated protocol has batches
    Limit,      \* chunks a line may have (MaxMessageBytes)
    MaxLines    \* bound: lines of the client

(* What messageProblem and the SDK tell apart in a line that is a message of its own. *)
AllShapes ==
    [object : BOOLEAN, version : BOOLEAN, method : {"absent", "string", "other"},
     id : {"absent", "null", "plain", "other"}, error : {"absent", "object", "other"}]

(* What the constants must be. *)
Legal ==
    /\ Kinds \subseteq {"call", "cancel", "batch", "odd"} /\ Shapes \subseteq AllShapes
    /\ \A m \in Shapes : ~(m.object /\ m.version /\ m.method = "string" /\ m.id = "plain")
    /\ Batching \in BOOLEAN /\ Limit \in Nat \ {0} /\ MaxLines \in Nat

ASSUME LinesAssumption == Legal

(* The filter and the SDK agree on these: ids spelled one way, versions with batches, and messages
   whose error is an object if there is one. *)
Agreed ==
    /\ Spellings = {"plain"} /\ (Batching \/ "batch" \notin Kinds)
    /\ \A m \in Shapes : m.error # "other"

VARIABLES
    sent,       \* the lines of the client
    seen,       \* how much of out the client has read
    closed,     \* the client has closed the input
    spot, held, oversized,  \* the reader: lines and chunks it has done; chunks in line; the flag
    pipe,       \* the line passed to the SDK and not read by it yet, or 0
    inflight, cancelled,  \* the maps of framer, as sets of ids
    calls,      \* per line, the SDK's request
    out,        \* stdout: the line each message answers, and whether its id is null
    open,       \* the session goes on
    silenced    \* requests whose cancellation was tracked before their response

reader == <<spot, held, oversized, pipe>>
lineVars == <<sent, seen, closed, reader, inflight, cancelled, calls, out, open, silenced>>

Id(n) == sent[n].id
IsCall(n) == sent[n].kind \in {"call", "batch"}
AnsweredIn(n, messages) == \E i \in 1..Len(messages) : messages[i].line = n
Replied(n) == AnsweredIn(n, out)
Seen(n) == AnsweredIn(n, SubSeq(out, 1, seen))

LinesInit ==
    /\ sent = <<>> /\ seen = 0 /\ closed = FALSE
    /\ spot = [line |-> 1, chunk |-> 0] /\ held = 0 /\ oversized = FALSE /\ pipe = 0
    /\ inflight = {} /\ cancelled = {}
    /\ calls = [n \in 1..MaxLines |-> "none"]
    /\ out = <<>> /\ open = TRUE /\ silenced = {}

-----------------------------------------------------------------------------
(* The client. *)

NoShape == [object |-> FALSE]

Line(kind, size, id, of, shape) ==
    /\ ~closed /\ Len(sent) < MaxLines /\ kind \in Kinds
    /\ sent' = Append(sent, [kind |-> kind, size |-> size, id |-> id, of |-> of, shape |-> shape])
    /\ UNCHANGED <<seen, reader, inflight, cancelled, calls, out, open, silenced>>

(* A request of its own or in a batch, with an id that is not in use. *)
Request(kind, size, v, s) ==
    /\ \A n \in 1..Len(sent) : IsCall(n) /\ Id(n).value = v => Seen(n)
    /\ Line(kind, size, [value |-> v, spelling |-> s], 0, NoShape) /\ UNCHANGED closed

Cancel(n) ==
    /\ n \in 1..Len(sent) /\ IsCall(n) /\ ~Seen(n)
    /\ Line("cancel", 1, Id(n), n, NoShape) /\ UNCHANGED closed

NoId == [value |-> "none", spelling |-> "plain"]

Odd(size, shape) == Line("odd", size, NoId, 0, shape) /\ UNCHANGED closed

(* The end of input, within a line or between two. *)
Close(cut) ==
    /\ IF cut THEN Line("odd", 1, NoId, 0, NoShape)
       ELSE ~closed /\ UNCHANGED <<sent, seen, reader, inflight, cancelled, calls, out, open, silenced>>
    /\ closed' = TRUE

Read ==
    /\ seen < Len(out) /\ seen' = seen + 1
    /\ UNCHANGED <<sent, closed, reader, inflight, cancelled, calls, out, open, silenced>>

-----------------------------------------------------------------------------
(* filterInput. *)

(* The next chunk of the line, held if the line still is within the limit. *)
readSlice ==
    /\ open /\ pipe = 0 /\ spot.line <= Len(sent) /\ spot.chunk < sent[spot.line].size
    /\ spot' = [spot EXCEPT !.chunk = @ + 1]
    /\ IF oversized THEN UNCHANGED <<held, oversized>>
       ELSE IF held + 1 > Limit THEN oversized' = TRUE /\ held' = 0
       ELSE held' = held + 1 /\ UNCHANGED oversized
    /\ UNCHANGED <<sent, seen, closed, pipe, inflight, cancelled, calls, out, open, silenced>>

(* Mutant: null passes for the id of a response. *)
messageProblemNull(m) ==
    \/ ~m.object \/ ~m.version
    \/ m.method = "other" \/ m.id = "other"
    \/ m.method = "absent" /\ m.id = "absent"

messageProblem(m) ==
    \/ ~m.object \/ ~m.version
    \/ m.method = "other" \/ m.id = "other"
    \/ m.method = "absent" /\ m.id \in {"absent", "null"}

(* DecodeMessage of the SDK fails. *)
Undecodable(m) ==
    \/ ~m.object \/ ~m.version \/ m.error = "other"
    \/ m.method = "other" \/ m.id = "other"
    \/ m.method = "absent" /\ m.id \in {"absent", "null"}

(* Mutant: a cancellation is recorded whether its request is in flight or not. *)
trackAlways(n) ==
    IF sent[n].kind = "cancel"
    THEN /\ cancelled' = cancelled \cup {Id(n)}
         /\ UNCHANGED inflight
    ELSE /\ inflight' = IF sent[n].kind = "call" THEN inflight \cup {Id(n)} ELSE inflight
         /\ UNCHANGED cancelled

(* track: a batch is not an object and is not tracked. *)
track(n) ==
    IF sent[n].kind = "cancel"
    THEN /\ cancelled' = IF Id(n) \in inflight THEN cancelled \cup {Id(n)} ELSE cancelled
         /\ UNCHANGED inflight
    ELSE /\ inflight' = IF sent[n].kind = "call" THEN inflight \cup {Id(n)} ELSE inflight
         /\ UNCHANGED cancelled

(* The fate of line n in flush: the framing layer's own error, or the SDK. *)
refuse(n) ==
    /\ out' = Append(out, [line |-> n, null |-> TRUE])
    /\ UNCHANGED <<pipe, inflight, cancelled, silenced>>

pass(n) ==
    /\ track(n) /\ pipe' = n
    /\ silenced' = IF sent[n].kind = "cancel" /\ ~Replied(sent[n].of)
                   THEN silenced \cup {sent[n].of} ELSE silenced
    /\ UNCHANGED out

AtEnd(n) == open /\ pipe = 0 /\ n <= Len(sent) /\ spot.chunk = sent[n].size

(* Mutant: the flag outlives its line. *)
flushSticky ==
    LET n == spot.line
    IN  /\ AtEnd(n)
        /\ spot' = [line |-> n + 1, chunk |-> 0]
        /\ held' = 0 /\ UNCHANGED oversized
        /\ IF oversized \/ (sent[n].kind = "odd" /\ messageProblem(sent[n].shape)) THEN refuse(n) ELSE pass(n)
        /\ UNCHANGED <<sent, seen, closed, calls, open>>

(* The end of a line: answered here if it is oversized or no message, else tracked and passed on. *)
flush ==
    LET n == spot.line
    IN  /\ AtEnd(n)
        /\ spot' = [line |-> n + 1, chunk |-> 0]
        /\ held' = 0 /\ oversized' = FALSE
        /\ IF oversized \/ (sent[n].kind = "odd" /\ messageProblem(sent[n].shape)) THEN refuse(n) ELSE pass(n)
        /\ UNCHANGED <<sent, seen, closed, calls, open>>

endOfFile ==
    /\ open /\ closed /\ pipe = 0 /\ spot.line > Len(sent)
    /\ open' = FALSE
    /\ UNCHANGED <<sent, seen, closed, reader, inflight, cancelled, calls, out, silenced>>

-----------------------------------------------------------------------------
(* The SDK reads a message.  What it cannot decode ends its session, and a batch does in a
   protocol without batches. *)
accept ==
    /\ open /\ pipe # 0
    /\ pipe' = 0
    /\ IF (sent[pipe].kind = "odd" /\ Undecodable(sent[pipe].shape)) \/ (sent[pipe].kind = "batch" /\ ~Batching)
       THEN open' = FALSE /\ UNCHANGED calls
       ELSE /\ calls' = IF IsCall(pipe) THEN [calls EXCEPT ![pipe] = "running"] ELSE calls
            /\ UNCHANGED open
    /\ UNCHANGED <<sent, seen, closed, spot, held, oversized, inflight, cancelled, out, silenced>>

(* Mutant: the response of a cancelled request is written. *)
WriteAll(n) ==
    LET id == [Id(n) EXCEPT !.spelling = "plain"]
    IN  /\ open /\ calls[n] = "running" /\ calls' = [calls EXCEPT ![n] = "done"]
        /\ inflight' = IF sent[n].kind = "call" THEN inflight \ {id} ELSE inflight
        /\ out' = Append(out, [line |-> n, null |-> FALSE])
        /\ cancelled' = cancelled \ {id}
        /\ UNCHANGED <<sent, seen, closed, reader, open, silenced>>

(* Write of a response, with the SDK's spelling of the id; those of batches are arrays. *)
Write(n) ==
    LET id == [Id(n) EXCEPT !.spelling = "plain"]
        tracked == sent[n].kind = "call" /\ id \in inflight
        drop == tracked /\ id \in cancelled
    IN  /\ open /\ calls[n] = "running" /\ calls' = [calls EXCEPT ![n] = "done"]
        /\ inflight' = IF tracked THEN inflight \ {id} ELSE inflight
        /\ cancelled' = IF drop THEN cancelled \ {id} ELSE cancelled
        /\ out' = IF drop THEN out ELSE Append(out, [line |-> n, null |-> FALSE])
        /\ UNCHANGED <<sent, seen, closed, reader, open, silenced>>

LinesNext ==
    \/ \E v \in Values, s \in Spellings :
        \/ \E size \in {1, Limit + 1} : Request("call", size, v, s)
        \/ Request("batch", 1, v, s)
    \/ \E n \in 1..MaxLines : Cancel(n) \/ Write(n)
    \/ \E size \in {1, Limit, Limit + 2}, shape \in Shapes : Odd(size, shape)
    \/ \E cut \in BOOLEAN : Close(cut)
    \/ Read \/ readSlice \/ flush \/ endOfFile \/ accept

LinesSpec == LinesInit /\ [][LinesNext]_lineVars

-----------------------------------------------------------------------------
(* Properties. *)

Done(n) == n < spot.line
Times(n) == Cardinality({i \in 1..Len(out) : out[i].line = n})
Refused(n) == sent[n].size > Limit \/ (sent[n].kind = "odd" /\ Undecodable(sent[n].shape))

(* What the reader holds is within the limit. *)
LinesTypeOK ==
    /\ seen \in 0..Len(out) /\ pipe \in 0..Len(sent) /\ held \in 0..Limit
    /\ inflight \subseteq [value : Values, spelling : Spellings]
    /\ cancelled \subseteq inflight /\ silenced \subseteq 1..Len(sent)

(* A refused line is answered once, with a null id, and never by the SDK; a request once, when it
   is done, unless its cancellation was read before; no other line is. *)
EachAnswered ==
    \A n \in 1..Len(sent) :
        /\ ~Refused(n) /\ ~IsCall(n) => Times(n) = 0
        /\ Refused(n) => Times(n) = (IF Done(n) THEN 1 ELSE 0) /\ calls[n] = "none"
        /\ IsCall(n) /\ ~Refused(n) =>
            /\ Times(n) <= 1
            /\ Times(n) = 1 <=> calls[n] = "done" /\ (n \notin silenced \/ sent[n].kind = "batch")
        /\ \A i \in 1..Len(out) : out[i].null <=> Refused(out[i].line)

(* Only requests under way are tracked, so that the maps do not grow and no later id is hit. *)
TrackingDrains ==
    \A id \in inflight \cup cancelled :
        \E n \in 1..Len(sent) : Id(n) = id /\ (pipe = n \/ calls[n] = "running")

(* No line ends the session: what the filter lets through the SDK can decode and answer. *)
SessionGoesOn == ~open => closed

(* Every line is answered as it must be, over cancellations that cross responses and ids used
   again: a refused line, one beyond the limit or one the SDK could not decode, once and by the
   filter; a request once, when it is done, and not at all after its cancellation was read (those
   of batches are not tracked); a neighbour's size or fault changes nothing.  The framer keeps no
   id of a request that is over, and no line ends the session. *)
AnsweredOnce == LinesTypeOK /\ EachAnswered /\ TrackingDrains /\ SessionGoesOn
==============================================================================
