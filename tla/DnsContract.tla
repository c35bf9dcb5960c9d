----------------------------- MODULE DnsContract -----------------------------
(***************************************************************************)
(* The DNS contract of the station (wifi_connectivity/src/dns_contract.rs):*)
(* the query that is sent and what makes a datagram an answer to it.  A    *)
(* datagram is its length and the fields of its header, 16 bits each; the  *)
(* bytes of the question are one value.                                    *)
(***************************************************************************)
EXTENDS Integers

\* u16::MAX.
MaxWord == 65535
Word == 0 .. MaxWord

\* QUERY_LEN: the header, the encoded name, the type and the class.
QueryLen == 29

\* build_query: one question, recursion desired.
BuildQuery(id) ==
  [length |-> QueryLen, id |-> id, flags |-> 256, questions |-> 1, answers |-> 0,
   question |-> "example.com"]

\* The parts of the flags that the masks 0x8000, 0x7800, 0x0200, 0x000f pick.
IsResponse(flags) == flags \div 32768 = 1
Opcode(flags) == (flags \div 2048) % 16
IsTruncated(flags) == (flags \div 512) % 2 = 1
ResponseCode(flags) == flags % 16

Succeeds(flags) ==
  /\ IsResponse(flags)
  /\ Opcode(flags) = 0
  /\ ~IsTruncated(flags)
  /\ ResponseCode(flags) = 0

\* validate_response returns Ok.  Which error it returns otherwise is only logged.
ValidateResponse(response, id) ==
  /\ response.length >= QueryLen
  /\ response.id = id
  /\ Succeeds(response.flags)
  /\ response.questions = 1
  /\ response.question = BuildQuery(id).question
  /\ response.answers # 0

-----------------------------------------------------------------------------
(***************************************************************************)
(* External: what a server may make of a query that it has received        *)
(***************************************************************************)
Outcomes ==
  {"answered", "noSuchName", "noRecords", "truncated", "reflected", "misread", "cut"}

\* The header of a server's response to the query.
Respond(query, flags, answers) ==
  [length |-> QueryLen + 16 * answers, id |-> query.id, flags |-> flags,
   questions |-> query.questions, answers |-> answers, question |-> query.question]

Response(query, outcome) ==
  CASE outcome = "answered"   -> Respond(query, 33152, 1)
    [] outcome = "noSuchName" -> Respond(query, 33155, 1)
    [] outcome = "noRecords"  -> Respond(query, 33152, 0)
    [] outcome = "truncated"  -> Respond(query, 33664, 1)
    [] outcome = "reflected"  -> query
    [] outcome = "misread"    -> [Respond(query, 33152, 1) EXCEPT !.question = "other"]
    [] outcome = "cut"        -> [Respond(query, 33152, 0) EXCEPT !.length = 12]
=============================================================================
