---------------------------- MODULE HttpRequest ----------------------------
(***************************************************************************)
(* What httpserver.c does with one bufferful: http_parser_execute with the *)
(* callbacks of httpserver.c:104-198, which build a struct http_request on *)
(* the heap, the report of method and version, and delete_http_request.    *)
(*                                                                         *)
(* Of the parser (http_parser.c) the model has the order in which it makes *)
(* the calls, and the version it has read when it makes them.  A block of  *)
(* memory is named by the call that allocated it, which also says what     *)
(* alloc_cpy copied into it.                                               *)
(***************************************************************************)
EXTENDS Integers, Sequences

CONSTANT MaxCalls   \* bound: data callbacks in one http_parser_execute

ASSUME MaxCallsAssumption == MaxCalls \in Nat

VARIABLES
  phase,     \* where the parser is, then where main() is
  pversion,  \* parser->http_major and minor, 0.0 at first
  lines,     \* history: the version of each request line reported
  calls,     \* the data callbacks made so far, in order
  method, url, body, version,  \* the fields of the request
  headers,   \* the list of headers: node, name and value
  heap       \* blocks allocated and not freed

reqvars == <<method, url, body, version, headers>>
rvars == <<phase, pversion, lines, calls, method, url, body, version, headers, heap>>

NULL == <<"null", 0>>
Request == <<"request", 0>>

\* What a request line may name behind its URL.
Versions == {"1.0", "1.1"}

(* new_http_request: every field but method is set.                        *)
RequestInit ==
  /\ phase = "start"
  /\ pversion = "0.0"
  /\ lines = <<>>
  /\ calls = <<>>
  /\ method = "uninitialised"
  /\ url = NULL /\ body = NULL /\ version = "0.0" /\ headers = <<>>
  /\ heap = {Request}

-----------------------------------------------------------------------------
(* The block the call of kind k made now allocates.                        *)
NewBlock(k) == <<k, Len(calls) + 1>>

Call(k) ==
  /\ Len(calls) < MaxCalls
  /\ calls' = Append(calls, k)

(* on_message_begin only reports.                                          *)
MessageBegin ==
  /\ phase = "start"
  /\ phase' = "line"
  /\ UNCHANGED <<pversion, lines, calls, reqvars, heap>>

(* The URL ends at a blank, with the version still to come, or at the end  *)
(* of the line: then the version is 0.9, and set before url_cb is called.  *)
UrlEnds ==
  \/ /\ phase' = "version"
     /\ lines' = Append(lines, "unread")
     /\ UNCHANGED pversion
  \/ /\ phase' = "headers"
     /\ lines' = Append(lines, "0.9")
     /\ pversion' = "0.9"

url_cb ==
  /\ phase = "line"
  /\ UrlEnds
  /\ Call("url")
  /\ method' = "set"
  /\ version' = pversion'
  /\ url' = NewBlock("url")
  /\ heap' = heap \cup {NewBlock("url")}
  /\ UNCHANGED <<body, headers>>

(* The parser reads the version that ends the request line.                *)
ParseVersion ==
  /\ phase = "version"
  /\ \E v \in Versions :
       /\ pversion' = v
       /\ lines' = [lines EXCEPT ![Len(lines)] = v]
  /\ phase' = "headers"
  /\ UNCHANGED <<calls, reqvars, heap>>

(* Mutant of add_http_header: a second header is put in front.             *)
add_http_header_front(h) == <<h>> \o headers

(* add_http_header: at the end of the list.                                *)
add_http_header(h) == Append(headers, h)

header_field_cb ==
  /\ phase \in {"headers", "value"}
  /\ Call("field")
  /\ LET node == NewBlock("node")
         name == NewBlock("field")
     IN /\ headers' = add_http_header([node |-> node, name |-> name,
                                       value |-> NULL])
        /\ heap' = heap \cup {node, name}
  /\ phase' = "name"
  /\ UNCHANGED <<pversion, lines, method, url, body, version>>

(* The value goes to the last header; a value folded over several lines    *)
(* comes in one call per line.                                             *)
header_value_cb ==
  /\ phase \in {"name", "value"}
  /\ Call("value")
  /\ IF headers = <<>>
     THEN phase' = "crash" /\ UNCHANGED <<headers, heap>>
     ELSE /\ headers' = [headers EXCEPT ![Len(headers)].value =
                                          NewBlock("value")]
          /\ heap' = heap \cup {NewBlock("value")}
          /\ phase' = "value"
  /\ UNCHANGED <<pversion, lines, method, url, body, version>>

\* The headers are those after a chunked body.
Trailing == \E n \in 1 .. Len(calls) :
              /\ calls[n] = "body"
              /\ \A m \in n .. Len(calls) : calls[m] # "url"

(* on_headers_complete only reports; the parser goes on to the body, or to *)
(* on_message_complete, after which another message may follow.            *)
HeadersComplete ==
  /\ phase \in {"headers", "value"}
  /\ phase' \in IF Trailing THEN {"start"}
                             ELSE {"identity", "chunked", "start"}
  /\ UNCHANGED <<pversion, lines, calls, reqvars, heap>>

body_cb ==
  /\ phase \in {"identity", "chunked"}
  /\ Call("body")
  /\ body' = NewBlock("body")
  /\ heap' = heap \cup {NewBlock("body")}
  /\ phase' \in IF phase = "identity" THEN {"start"}
                                      ELSE {"chunked", "headers"}
  /\ UNCHANGED <<pversion, lines, method, url, version, headers>>

(* The bufferful is used up, or the parser gives up on it.                 *)
ParserReturns ==
  /\ phase \in {"start", "line", "version", "headers", "name", "value",
                "identity", "chunked"}
  /\ phase' = "print"
  /\ UNCHANGED <<pversion, lines, calls, reqvars, heap>>

(* printf("method: %s...") of a pointer that may never have been set.      *)
ReportMethod ==
  /\ phase = "print"
  /\ phase' \in IF method = "set" THEN {"url"} ELSE {"url", "crash"}
  /\ UNCHANGED <<pversion, lines, calls, reqvars, heap>>

(* delete_http_request.                                                    *)
FreeUrl ==
  /\ phase = "url"
  /\ heap' = heap \ {url}
  /\ phase' = "body"
  /\ UNCHANGED <<pversion, lines, calls, reqvars>>

FreeBody ==
  /\ phase = "body"
  /\ heap' = heap \ {body}
  /\ phase' = "list"
  /\ UNCHANGED <<pversion, lines, calls, reqvars>>

(* Mutant of delete_http_header: the value is forgotten.                   *)
delete_http_header_no_value(h) == heap \ {h.name, h.node}

delete_http_header(h) == heap \ {h.name, h.value, h.node}

FreeHeader ==
  /\ phase = "list"
  /\ headers # <<>>
  /\ heap' = delete_http_header(Head(headers))
  /\ headers' = Tail(headers)
  /\ UNCHANGED <<phase, pversion, lines, calls, method, url, body, version>>

FreeRequest ==
  /\ phase = "list"
  /\ headers = <<>>
  /\ heap' = heap \ {Request}
  /\ phase' = "freed"
  /\ UNCHANGED <<pversion, lines, calls, reqvars>>

RequestNext ==
  \/ MessageBegin \/ url_cb \/ ParseVersion
  \/ header_field_cb \/ header_value_cb \/ HeadersComplete \/ body_cb
  \/ ParserReturns \/ ReportMethod
  \/ FreeUrl \/ FreeBody \/ FreeHeader \/ FreeRequest

RequestSpec == RequestInit /\ [][RequestNext]_rvars

-----------------------------------------------------------------------------
\* The calls of kind k, and the block of the last call among S, of kind k.
CallsOf(k) == {n \in 1 .. Len(calls) : calls[n] = k}
LastBlock(k, S) ==
  IF S = {} THEN NULL ELSE <<k, CHOOSE x \in S : \A y \in S : y <= x>>

\* No header name was reported after call m, up to call n.
SameHeader(m, n) == \A z \in CallsOf("field") : ~(m < z /\ z <= n)

\* The calls that reported a line of the value of the header named by call f.
ValuesOf(f) == {x \in CallsOf("value") : f < x /\ SameHeader(f, x)}

HeaderOf(f) == [node |-> <<"node", f>>, name |-> <<"field", f>>,
                value |-> LastBlock("value", ValuesOf(f))]

\* The version of the line before the last, and what url_cb finds.
EarlierVersion == IF Len(lines) < 2 THEN "0.0" ELSE lines[Len(lines) - 1]
CopiedVersion ==
  IF lines # <<>> /\ lines[Len(lines)] = "0.9" THEN "0.9" ELSE EarlierVersion

Parsing == phase \notin {"url", "body", "list", "freed", "crash"}

(***************************************************************************)
(* The request holds what the parser reported: the last URL and body, and  *)
(* one header per name, in order, each with its own value (the last line   *)
(* of it), whatever the order in which names, folded values, trailers and  *)
(* further messages arrive.  The version is the line's own when the line   *)
(* ends with the URL (HTTP/0.9, http_parser.c:1156-1164); one that the     *)
(* line names comes too late for url_cb, which copies what the parser has  *)
(* from the line before, or 0.0 (httpserver.c:115).  A value never meets   *)
(* an empty list (httpserver.c:148), so that only the report of a method   *)
(* that was never set can bring the process down.                          *)
(***************************************************************************)
RequestMatchesCalls ==
  /\ phase = "crash" => CallsOf("url") = {}
  /\ Parsing =>
    /\ version = CopiedVersion
    /\ url = LastBlock("url", CallsOf("url"))
    /\ body = LastBlock("body", CallsOf("body"))
    /\ \A f \in CallsOf("field") : \E k \in 1 .. Len(headers) :
         headers[k] = HeaderOf(f)
    /\ \A k \in 1 .. Len(headers) : \E f \in CallsOf("field") :
         /\ headers[k] = HeaderOf(f)
         /\ \A l \in 1 .. k - 1 : headers[l].name[2] < f

\* The blocks a later call of the same kind replaced in the request: an
\* earlier message's URL, an earlier chunk of the body, an earlier line of a
\* folded value.
Replaced ==
  {<<calls[n], n>> : n \in
     {x \in CallsOf("url") \cup CallsOf("body") \cup CallsOf("value") :
        \E y \in CallsOf(calls[x]) :
          x < y /\ (calls[x] = "value" => SameHeader(x, y))}}

\* The blocks of header k, of the list, and all those delete_http_request has
\* still to free.
Blocks(k) == {headers[k].node, headers[k].name, headers[k].value}
ListBlocks == UNION {Blocks(k) : k \in 1 .. Len(headers)}
Held ==
  (ListBlocks
     \cup {b \in {url} : phase \notin {"body", "list", "freed"}}
     \cup {b \in {body} : phase \notin {"list", "freed"}}
     \cup {b \in {Request} : phase # "freed"}) \ {NULL}

(***************************************************************************)
(* Every block of the heap is accounted for, at every moment: it is one    *)
(* the request still points to, or one that was replaced, never both.  So  *)
(* delete_http_request frees no block twice, follows no pointer into freed *)
(* memory, and what it leaves behind in the end is exactly what a later    *)
(* call of the same kind had replaced.                                     *)
(***************************************************************************)
LosesOnlyReplaced ==
  /\ heap = Replaced \cup Held
  /\ Replaced \cap Held = {}
=============================================================================
