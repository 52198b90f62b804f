------------------------------ MODULE Requests ------------------------------
(***************************************************************************)
(* The parts that handle requests. They share no state here: each behaviour *)
(* is one of the request handler, of the request validator, of the limits   *)
(* of the security validator, of the response builder, of an operation with *)
(* a transaction, of the filter manager, or a body or a record that is      *)
(* read, with the others at rest.                                          *)
(***************************************************************************)
EXTENDS RequestHandler, RequestValidator, SecurityValidator, ResponseBuilder,
        ExceptionHandler, WebSocketFilterManager

CONSTANTS
    Parts,       \* the parts whose behaviours are considered
    bodyWords,   \* the words of the bodies that are read
    Bodies,      \* the bodies: fields, and the blanks between them
    Samples      \* the records that are written and read back

VARIABLES part, body, sample
handling == <<rhvars, rvvars, svvars, bvars, xvars>>
requests == <<part, body, sample, handling, fmvars>>

---------------------------------------------------------------------------
(* The symbols that mean something to the reader of a body, and those that  *)
(* end a value.                                                            *)
Quote == "\""
Open == "{"
Close == "}"
Comma == ","
Ends == {Comma, Close, "\n", "\r"}
Syntax == {Quote, Open, Close, Comma, ":", "[", "]", "\\"} \union Blank

(* A value of a flat body, where the fields have the given names: one       *)
(* without quotes, or a text between them.                                  *)
Bare(v, names) ==
    /\ v # <<>> /\ v[1] \notin Blank /\ v[Len(v)] \notin Blank
    /\ \A i \in 1..Len(v) : v[i] \notin names \union Ends \union {Quote, Open, "[", "]", "\\"}
Between(w, names) ==
    /\ \A i \in 1..Len(w) : w[i] \notin Ends \union {Quote, "\\"}
    /\ w # <<>> => w[1] \notin Blank /\ w[Len(w)] \notin Blank
    /\ ~(Len(w) = 1 /\ w[1] \in names)

(* A flat body: words that are none of the reader's symbols name the fields, *)
(* each once; a value is bare or between quotes; blanks follow the colons    *)
(* and the commas.                                                          *)
Flat(words, fields, afterColon, afterComma) ==
    LET S == words \union Syntax
        names == {fields[i][1] : i \in 1..Len(fields)}
    IN /\ words \intersect Syntax = {}
       /\ fields \in Seq(words \X Seq(S))
       /\ \A i, j \in 1..Len(fields) : fields[i][1] = fields[j][1] => i = j
       /\ \A i \in 1..Len(fields) :
             LET v == fields[i][2] IN
             \/ Bare(v, names)
             \/ /\ Len(v) >= 2 /\ v[1] = Quote /\ v[Len(v)] = Quote
                /\ Between(SubSeq(v, 2, Len(v) - 1), names)
       /\ afterColon \in Seq(Blank) /\ afterComma \in Seq(Blank)

(* The bodies that are read are flat: the reader is a search for the name    *)
(* between quotes, and makes no claim of others.                            *)
ASSUME BodiesAssumption ==
    \A b \in Bodies : Flat(bodyWords, b.fields, b.colon, b.comma)

(* The records that are read back have the types of the code's.              *)
ASSUME SamplesAssumption == \A s \in Samples : IsRecord(s.kind, s.value)

NoBody == [fields |-> <<>>, colon |-> <<>>, comma |-> <<>>]
NoSample == [kind |-> "metrics", value |-> NoMetrics]

Init ==
    /\ part \in Parts
    /\ body \in IF part = "bodies" THEN Bodies ELSE {NoBody}
    /\ sample \in IF part = "records" THEN Samples ELSE {NoSample}
    /\ RHInit /\ RVInit /\ SVInit /\ BInit /\ XInit /\ FMInit

Next ==
    /\ UNCHANGED <<part, body, sample>>
    /\ \/ part = "handler" /\ RHNext /\ UNCHANGED <<rvvars, svvars, bvars, xvars, fmvars>>
       \/ part = "validator" /\ RVNext /\ UNCHANGED <<rhvars, svvars, bvars, xvars, fmvars>>
       \/ part = "security" /\ SVNext /\ UNCHANGED <<rhvars, rvvars, bvars, xvars, fmvars>>
       \/ part = "builder" /\ BNext /\ UNCHANGED <<rhvars, rvvars, svvars, xvars, fmvars>>
       \/ part = "transaction" /\ XNext /\ UNCHANGED <<rhvars, rvvars, svvars, bvars, fmvars>>
       \/ part = "filters" /\ FMNext /\ UNCHANGED handling

Spec == Init /\ [][Next]_requests

(* A field of a flat body is read as it was written, wherever it stands and *)
(* whatever blanks follow the colons and the commas, and the body passes    *)
(* for JSON. (Values with a comma, a brace or a line end, with a blank at    *)
(* an end, or that are the name of a field, are not read back.)             *)
FieldExtracted == part = "bodies" => FieldsRead(body.fields, body.colon, body.comma)

(* What was written of a record is read back: see ReadsBack.                *)
ReadBack == part = "records" => ReadsBack(sample.kind, sample.value)
=============================================================================
