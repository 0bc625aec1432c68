-------------------------- MODULE ForwardedHeaders --------------------------
(***************************************************************************)
(* EssaProxy._modify_headers (proxy.py): the head of a request as it is    *)
(* sent to the backend.  A head is the sequence of the lines it is split   *)
(* into; readuntil returns everything up to the blank line, so that the    *)
(* split ends with two empty strings.  Of a header only its kind matters.  *)
(* The loop takes each of the two for the end of the head: what it injects *)
(* at the second comes after the head that the backend reads.              *)
(***************************************************************************)
EXTENDS Integers, Sequences, SequencesExt

CONSTANT MaxHeaders   \* bound: headers of a request

ASSUME HeadersAssumption == MaxHeaders \in Nat

Kinds == {"for", "proto", "other"}

VARIABLES
  headers,     \* the headers of the request, by kind
  decodable,   \* the head is valid UTF-8
  traced       \* there is a trace_id

head == <<headers, decodable, traced>>

HeadInit == headers = <<>> /\ decodable \in BOOLEAN /\ traced \in BOOLEAN

(* The client writes one more header.                                      *)
Write(kind) ==
  /\ Len(headers) < MaxHeaders
  /\ headers' = Append(headers, kind)
  /\ UNCHANGED <<decodable, traced>>

HeadNext == \E kind \in Kinds : Write(kind)

HeadSpec == HeadInit /\ [][HeadNext]_head

-----------------------------------------------------------------------------
SplitLines == <<"GET">> \o headers \o <<"", "">>

When(condition, line) == IF condition THEN <<line>> ELSE <<>>

(* What is injected at an empty line after the headers in `has'.           *)
Injected(has) ==
  When("for" \notin has, "for = client") \o When("proto" \notin has, "proto = scheme")
    \o When(traced, "traceparent")

(* A mutation of Modify: has_x_forwarded is never set.                     *)
ModifyForgetful(done, line) ==
  CASE line = "for" -> [out |-> Append(done.out, "for, client"), has |-> done.has]
    [] line = "proto" ->
         [out |-> Append(done.out, "proto = scheme"), has |-> done.has \cup {line}]
    [] line = "" ->
         [out |-> done.out \o Injected(done.has) \o <<"">>, has |-> done.has]
    [] OTHER -> [out |-> Append(done.out, line), has |-> done.has]

(* One round of the loop; `has' is what it has seen of the two headers.    *)
Modify(done, line) ==
  CASE line = "for" ->
         [out |-> Append(done.out, "for, client"), has |-> done.has \cup {line}]
    [] line = "proto" ->
         [out |-> Append(done.out, "proto = scheme"), has |-> done.has \cup {line}]
    [] line = "" ->
         [out |-> done.out \o Injected(done.has) \o <<"">>, has |-> done.has]
    [] OTHER -> [out |-> Append(done.out, line), has |-> done.has]

ModifyHeaders ==
  IF decodable
    THEN FoldLeft(Modify, [out |-> <<Head(SplitLines)>>, has |-> {}], Tail(SplitLines)).out
    ELSE <<Head(SplitLines), "for = client", "proto = scheme">> \o Tail(SplitLines)

(* The backend reads the lines up to the first empty one as the head.      *)
HeadRead ==
  LET sent == ModifyHeaders
      end  == CHOOSE i \in DOMAIN sent :
                sent[i] = "" /\ \A j \in 1 .. i - 1 : sent[j] # ""
  IN  SubSeq(sent, 1, end - 1)

-----------------------------------------------------------------------------
HeadTypeOK ==
  headers \in Seq(Kinds) /\ Len(headers) <= MaxHeaders /\ decodable \in BOOLEAN
    /\ traced \in BOOLEAN

(* The head the documentation describes; of one that is no UTF-8 the       *)
(* headers are kept as they are, after the injected ones.                  *)
Promised ==
  LET Sent(kind) == \E i \in DOMAIN headers : headers[i] = kind
      kept == [i \in DOMAIN headers |->
                 CASE headers[i] = "for"   -> "for, client"
                   [] headers[i] = "proto" -> "proto = scheme"
                   [] OTHER                -> "other"]
  IN  IF decodable
        THEN <<"GET">> \o kept \o When(~Sent("for"), "for = client")
               \o When(~Sent("proto"), "proto = scheme") \o When(traced, "traceparent")
        ELSE <<"GET", "for = client", "proto = scheme">> \o headers

(***************************************************************************)
(* The docstring (proxy.py:655-657) and README.md:85: the backend reads    *)
(* the client's headers in their order, the address appended to every      *)
(* X-Forwarded-For, the scheme in place of every X-Forwarded-Proto, and    *)
(* after them once each what was not there, however often and in whatever  *)
(* order the client sent them.                                             *)
(***************************************************************************)
HeadIsForwarded == HeadRead = Promised
=============================================================================
