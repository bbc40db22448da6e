----------------------------- MODULE WathqAnswer -----------------------------
(***************************************************************************)
(* wathq_client.py: what one request to Wathq comes to.                    *)
(*                                                                         *)
(* A reply is what happened on the wire, as a record.  "failed" names a    *)
(* transport failure, or is None; "status" and "code" are the answer's;    *)
(* "label" is its Content-Encoding, "layers" how it is really packed, from *)
(* the outside in, and "core" what is inside.                              *)
(***************************************************************************)
EXTENDS Naturals, Sequences

CONSTANT None

\* Failures that urllib raises while connecting, and those met after.
Connecting == {"no_dns", "refused", "tls_certificate", "tls_handshake", "no_tunnel",
               "slow_connect", "unreachable"}
Reading    == {"cut_off", "tls_reading", "slow_read", "reset"}

Fails(status)      == [ok |-> FALSE, status |-> status, code |-> None]
FailsWith(status, code) == [ok |-> FALSE, status |-> status, code |-> code]
Gives(core)        == [ok |-> TRUE, core |-> core]

-----------------------------------------------------------------------------
(* Failures.                                                               *)

\* Nothing can have reached Wathq: the request was never written.
before_send(reason) ==
    reason \in {"no_dns", "refused", "tls_certificate", "tls_handshake", "no_tunnel"}

\* The status the app answers with.
transport_error(reason) ==
    CASE reason \in {"slow_connect", "slow_read"} -> Fails(504)
      [] reason \in {"tls_certificate", "tls_handshake", "tls_reading", "cut_off"} -> Fails(502)
      [] OTHER -> Fails(503)

\* The dotted code wins over the HTTP status.
error_for(status, code) ==
    LET kind == IF code # None THEN code ELSE status
    IN  CASE kind = "404" -> FailsWith(404, code)
          [] kind = "429" -> FailsWith(429, code)
          [] kind = "400" -> FailsWith(400, code)
          [] OTHER        -> FailsWith(502, code)

-----------------------------------------------------------------------------
(* Answers.                                                                *)

\* Which decompression the layer at this depth is given: the label is trusted
\* for the outermost only, gzip is known by its first bytes at every depth.
LayerKind(label, depth, outside) ==
    IF depth = 0 /\ label = "deflate" THEN "deflate"
    ELSE IF (depth = 0 /\ label = "gzip") \/ outside \in {"gzip", "cut_gzip"} THEN "gzip"
    ELSE "plain"

\* What decompressing does to the outermost layer.
Inflates(kind, outside) ==
    \/ kind = "gzip" /\ outside = "gzip"
    \/ kind = "deflate" /\ outside \in {"deflate", "raw_deflate"}

Outside(layers) == IF layers = <<>> THEN "nothing" ELSE layers[1]
Packings        == {"gzip", "cut_gzip", "deflate", "raw_deflate"}
\* What is inside: Bracketed starts as a JSON object or list does; the others
\* are a value that is neither, a JSON string of an object, and an object behind
\* a byte order mark or in UTF-16.
Bracketed == {"object", "error_body", "list", "legacy_charset"}
Json      == Bracketed \cup {"odd_value", "quoted_object", "marked_object"}
Cores     == Json \cup {"blank", "no_json"}

\* A body that is not packed though its label says so is taken by its first
\* byte alone.
Plain(layers, core) == layers = <<>> /\ core \in Bracketed

\* _decompress, one depth at a time: the core once nothing is left to undo.
Unpacks(label, depth, layers, core) ==
    LET kind == LayerKind(label, depth, Outside(layers))
    IN  CASE kind = "plain" -> IF layers = <<>> THEN core ELSE "binary"
          [] kind # "plain" /\ depth = 2 -> "too_deep"
          [] OTHER ->
               IF Inflates(kind, Outside(layers)) THEN "inflated"
               ELSE IF Outside(layers) = "cut_gzip" THEN "cut_off"
               ELSE IF depth = 0 /\ Plain(layers, core) THEN core
               ELSE "not_compressed"

_decompress(label, layers, core) ==
    LET first  == Unpacks(label, 0, layers, core)
        second == Unpacks(label, 1, Tail(layers), core)
        third  == Unpacks(label, 2, Tail(Tail(layers)), core)
    IN  IF label = "unsupported" THEN IF Plain(layers, core) THEN core ELSE "unsupported"
        ELSE IF first # "inflated" THEN first
        ELSE IF second # "inflated" THEN second
        ELSE third

\* decode_answer: the JSON value inside, or why there is none.  A 2xx body
\* that is a JSON string of JSON is read again, Unicode is told by its
\* bytes; a legacy charset is tried only after Unicode, and only when it was
\* declared.
decode_answer(reply) ==
    LET body == _decompress(reply.label, reply.layers, reply.core)
    IN  IF reply.status = "204" THEN Fails(502)
        ELSE CASE body \in {"quoted_object", "marked_object"} -> Gives("object")
               [] body = "legacy_charset" ->
                    IF reply.charset THEN Gives("object") ELSE Fails(502)
               [] body \in {"object", "error_body", "list", "odd_value"} -> Gives(body)
               [] OTHER -> Fails(502)

\* _fetch and _get: one request, answered or failed.
_get(reply) ==
    IF reply.failed # None THEN transport_error(reply.failed)
    ELSE IF reply.status \notin {"200", "204"} THEN error_for(reply.status, reply.code)
    ELSE IF reply.size # "fits" THEN Fails(502)
    ELSE decode_answer(reply)

\* code_in: a 2xx answer that carries Wathq's own error.
code_in(outcome) == outcome.ok /\ outcome.core = "error_body"
=============================================================================
