------------------------------ MODULE RimOutput ------------------------------
(***************************************************************************)
(* What a request sends to its client: src/rimrt.c with the statements of  *)
(* src/v1.c that print, send headers and files, set cookies, finish the    *)
(* output, collect it in strings (write-string), and leave a handler; and  *)
(* the dispatcher the script src/rim writes, which calls before-handler,   *)
(* the handler of the request and after-handler.                           *)
(*                                                                         *)
(* What goes to the error stream is left out, and so is what strings hold: *)
(* a string is the place in its buffer. An error while an error is         *)
(* reported ends the process, see RimDb.                                   *)
(***************************************************************************)
EXTENDS Integers, Sequences

CONSTANTS
  OutText,      \* lengths of what is printed at once
  WrMin, WrMax, \* RIM_WRSTR_ADD_MIN, RIM_WRSTR_ADD_MAX
  WrNested,     \* RIM_MAX_NESTED_WRITE_STRING
  WrMaxText     \* bound on the length of a string

ASSUME OutAssumption ==
  /\ OutText \subseteq Nat /\ WrNested \in Nat /\ WrMaxText \in Nat
  /\ WrMin \in Nat \ {0} /\ WrMax \in Nat

VARIABLES
  oPhase,   \* "accept", the handler that runs, or "shut"
  oReq,     \* what the request has of its output, see NewRequest
  oLevels,  \* write_string_arr up to curr_write_to_string: len, buf_pos, wlen
  oBase     \* how many levels were open when the handler began

outVars == <<oPhase, oReq, oLevels, oBase>>

-----------------------------------------------------------------------------
(* The response.                                                           *)

\* rim_init_input_req(). "client" is the stream the client gets, where texts
\* that follow each other are one; "error" is a history: whether the message
\* of an error was due to it, and "odd" what the program did that no check
\* stops, and that leaves the response without its form: "silence" asked for
\* or a "cookie" deleted too late, a head without its end when the output was
\* finished ("bare"), something sent after a file the client has ("again"), from
\* where on the stream is not kept.
NewRequest(silent) ==
  [header |-> FALSE,    \* sent_header
   data |-> FALSE,      \* data_was_output
   disabled |-> FALSE,  \* disable_output
   silent |-> silent, cookie |-> FALSE, finished |-> FALSE,
   client |-> <<>>, error |-> FALSE, odd |-> {}]

Texts == {"text", "error"}

\* rim_gen_write() and whatever else writes to the stream
WriteClient(r, what) ==
  IF r.finished \/ "again" \in r.odd
     \/ (what = "text" /\ r.client # <<>> /\ r.client[Len(r.client)] = what)
  THEN r ELSE [r EXCEPT !.client = Append(@, what)]

\* rim_gen_set_status() with the headers around it, rim_gen_add_header()
WriteHeader(r, what) == IF r.silent THEN r ELSE WriteClient(r, what)

\* Mutant: the end of the header is written each time it is asked for.
HeaderEndAlways(r) ==
  WriteHeader(IF r.cookie THEN WriteHeader(r, "cookie") ELSE r, "blank")
\* rim_gen_header_end(): cookies, and the blank line
HeaderEnd(r) ==
  IF r.data THEN r
  ELSE [WriteHeader(IF r.cookie THEN WriteHeader(r, "cookie") ELSE r, "blank")
          EXCEPT !.data = TRUE]

\* rim_output_http_header()
OutputHeader(r) ==
  IF r.header \/ r.disabled THEN r ELSE WriteHeader([r EXCEPT !.header = TRUE], "head")

\* rim_write_web(), outside of the reporting of an error
WriteWeb(r, what) == WriteClient(HeaderEnd(OutputHeader(r)), what)

\* rim_server_error(), rim_bad_request(), rim_cant_find_file()
ErrorHead(r) ==
  HeaderEnd(IF r.header THEN r ELSE WriteHeader([r EXCEPT !.header = TRUE], "head"))

\* _rim_report_error(): the message goes to the client, not to a string.
Reported(r) == WriteClient([ErrorHead(r) EXCEPT !.error = ~r.finished], "error")

Odd(r, what) == [r EXCEPT !.odd = @ \cup what]

\* A file the client has is answered by a head that nothing remembers.
Again(r) == IF r.data /\ ~r.header THEN Odd(r, {"again"}) ELSE r

Leave(r) == oPhase' = "shut" /\ oReq' = r /\ UNCHANGED <<oLevels, oBase>>
ReportError == Leave(Reported(Again(oReq)))

Answers(r) == oReq' = r /\ UNCHANGED <<oPhase, oLevels, oBase>>

-----------------------------------------------------------------------------
(* Strings.                                                                *)

InHandler == oPhase \in {"before", "main", "after"}
InString == oLevels # <<>>

NewLevel == [len |-> WrMin, pos |-> 0, add |-> WrMin]

\* RIM_WRSTR_ADJMEM
Adjusted(add) == IF add < WrMax THEN 2 * add ELSE add

\* Mutant: a text that fills the buffer leaves no room for the null behind it.
GrownLate(w, n) ==
  IF n <= w.len - w.pos THEN w
  ELSE [w EXCEPT !.len = @ + n + w.add, !.add = Adjusted(w.add)]
\* Memory for n more bytes and the null behind them
Grown(w, n) ==
  IF n < w.len - w.pos THEN w
  ELSE [w EXCEPT !.len = @ + n + w.add, !.add = Adjusted(w.add)]

\* rim_puts_to_string(), or rim_printf() without encoding
PutText(w, n) == [Grown(w, n) EXCEPT !.pos = w.pos + n]

\* rim_printf() with encoding: the text is put there, and then replaced.
PutEncoded(w, n, m) == PutText([PutText(w, n) EXCEPT !.pos = w.pos], m)

\* rim_puts() with encoding: room for six times the text and one byte, of which
\* the encoded text takes m.
PutEnlarged(w, n, m) == [Grown(w, n * 6 + 1) EXCEPT !.pos = w.pos + m]

PrintToString(w) ==
  /\ InString /\ w.pos <= WrMaxText
  /\ oLevels' = [oLevels EXCEPT ![Len(oLevels)] = w]
  /\ UNCHANGED <<oPhase, oReq, oBase>>

\* write-string
WriteString ==
  IF Len(oLevels) = WrNested THEN ReportError
  ELSE oLevels' = Append(oLevels, NewLevel) /\ UNCHANGED <<oPhase, oReq, oBase>>

\* end-write-string: the compiler pairs it with the write-string of a handler.
EndWriteString ==
  /\ Len(oLevels) > oBase
  /\ oLevels' = SubSeq(oLevels, 1, Len(oLevels) - 1)
  /\ UNCHANGED <<oPhase, oReq, oBase>>

-----------------------------------------------------------------------------
(* Statements.                                                             *)

\* The output statement, print-out, print-web, print-url, print-format. With
\* to-error the client gets the header only.
PrintOut ==
  \/ ~InString /\ oReq.disabled /\ ReportError
  \/ ~InString /\ ~oReq.disabled /\ Answers(HeaderEnd(OutputHeader(oReq)))
  \/ ~InString /\ ~oReq.disabled /\ Answers(WriteWeb(oReq, "text"))
  \/ InString /\ \E n, m \in OutText :
       \/ PrintToString(PutText(oLevels[Len(oLevels)], n))
       \/ n <= m /\ PrintToString(PutEncoded(oLevels[Len(oLevels)], n, m))
       \/ m \in n .. n * 6 /\ PrintToString(PutEnlarged(oLevels[Len(oLevels)], n, m))

\* out-header
OutHeader == Answers(OutputHeader(oReq))

\* silent-header
SilentHeader ==
  Answers(Odd([oReq EXCEPT !.silent = TRUE],
              IF oReq.header \/ oReq.data THEN {"silence"} ELSE {}))

\* set-cookie
SetCookie == IF oReq.data THEN ReportError ELSE Answers([oReq EXCEPT !.cookie = TRUE])

\* delete-cookie of a cookie there is
DeleteCookie ==
  Answers(Odd([oReq EXCEPT !.cookie = TRUE], IF oReq.data THEN {"cookie"} ELSE {}))

\* send-file of a file that is missing, that the client has, that is sent with
\* the header of a page, or with its own.
Missing(r) == ErrorHead(r)
Unmodified(r) == HeaderEnd(WriteHeader(r, "head"))
AsPage(r) == [WriteWeb([r EXCEPT !.disabled = FALSE], "text") EXCEPT !.disabled = TRUE]
AsFile(r) == WriteWeb([WriteHeader(r, "head") EXCEPT !.header = TRUE], "text")

SendFile ==
  IF (oReq.disabled /\ ~InString) \/ oReq.header THEN ReportError
  ELSE LET r == Again([oReq EXCEPT !.disabled = TRUE]) IN
       \/ Answers(Missing(r)) \/ Answers(Unmodified(r))
       \/ Answers(AsPage(r)) \/ Answers(AsFile(r))

\* finish-output
FinishOutput ==
  Answers(Odd([oReq EXCEPT !.finished = TRUE, !.disabled = TRUE],
              IF oReq.header /\ ~oReq.data THEN {"bare"} ELSE {}))

\* report-error of the program, which prints its message to the error stream
\* and so sends the header, or prints it to a string.
ReportErrorStatement ==
  IF InString THEN Leave(oReq)
  ELSE IF oReq.disabled THEN ReportError
  ELSE Leave(HeaderEnd(OutputHeader(oReq)))

\* exit-handler; in after-handler it does nothing.
ExitHandler ==
  /\ oPhase \in {"before", "main"}
  /\ oPhase' = IF oPhase = "before" THEN "shut" ELSE "after"
  /\ oBase' = Len(oLevels)
  /\ UNCHANGED <<oReq, oLevels>>

\* return-handler, also within a write-string, or the end of the handler
ReturnHandler ==
  /\ InHandler
  /\ oPhase' = CASE oPhase = "before" -> "main" [] oPhase = "main" -> "after" [] OTHER -> "shut"
  /\ oBase' = Len(oLevels)
  /\ UNCHANGED <<oReq, oLevels>>

OutStatement ==
  /\ InHandler
  /\ \/ PrintOut \/ WriteString \/ EndWriteString
     \/ OutHeader \/ SilentHeader \/ SetCookie \/ DeleteCookie
     \/ SendFile \/ FinishOutput \/ ReportErrorStatement
     \/ ReportError   \* any other statement fails

-----------------------------------------------------------------------------
(* Requests.                                                               *)

\* Input is refused, or is for no handler: the head of a bad request, then an
\* error. Or it is for a handler.
AcceptRequest ==
  /\ oPhase = "accept"
  /\ oLevels' = <<>> /\ oBase' = 0
  /\ \E silent \in BOOLEAN :
       \/ oPhase' = "before" /\ oReq' = NewRequest(silent)
       \/ oPhase' = "shut" /\ oReq' = Reported(ErrorHead(NewRequest(silent)))
       \/ oPhase' = "shut" /\ oReq' = Reported(NewRequest(silent))

\* rim_shut()
Shut(r) == IF r.header /\ ~r.data THEN HeaderEnd(r) ELSE r

\* The end of the main loop
EndRequest ==
  /\ oPhase = "shut"
  /\ oPhase' = "accept"
  /\ oReq' = [Shut(oReq) EXCEPT !.finished = TRUE]
  /\ UNCHANGED <<oLevels, oBase>>

OutInit ==
  /\ oPhase = "accept" /\ oLevels = <<>> /\ oBase = 0
  /\ oReq = [NewRequest(FALSE) EXCEPT !.finished = TRUE]

OutNext == OutStatement \/ ExitHandler \/ ReturnHandler \/ AcceptRequest \/ EndRequest

OutSpec == OutInit /\ [][OutNext]_outVars

-----------------------------------------------------------------------------
(* Properties.                                                             *)

Sent(what) == \E i \in DOMAIN oReq.client : oReq.client[i] = what
SentAt(what) == CHOOSE i \in DOMAIN oReq.client : oReq.client[i] = what

\* Whichever statement produces the first output, from inside a string or not,
\* and however the request ends, the client gets one head, the cookies, one
\* blank line, and only then texts: all of it, or nothing, when the request is
\* over. A silent response has texts only. The message of an error ends it.
ResponseWellFormed ==
  LET client == oReq.client
      blank == IF Sent("cookie") THEN 3 ELSE 2
      form(i) == CASE i = 1 -> {"head"}
                   [] i = 2 /\ blank = 3 -> {"cookie"}
                   [] i = blank -> {"blank"}
                   [] OTHER -> Texts
  IN
  oReq.odd \cap {"again", "silence"} = {} =>
    /\ \A i \in DOMAIN client : client[i] \in IF oReq.silent THEN Texts ELSE form(i)
    /\ ~oReq.silent /\ oReq.cookie /\ Sent("blank") =>
         Sent("cookie") \/ "cookie" \in oReq.odd
    /\ oPhase = "accept" /\ ~oReq.silent /\ client # <<>> =>
         Sent("blank") \/ "bare" \in oReq.odd
    /\ oReq.error => SentAt("error") = Len(client)

\* A string always has room for the null behind what was printed into it,
\* whether its buffer was enlarged for it as it is, encoded, or by six times.
WriteStringFits == \A i \in DOMAIN oLevels : oLevels[i].pos < oLevels[i].len

=============================================================================
