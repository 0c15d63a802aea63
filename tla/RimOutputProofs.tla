-------------------------- MODULE RimOutputProofs ---------------------------
(***************************************************************************)
(* Theorems about RimOutput, for all lengths of texts, sizes of buffers    *)
(* and nestings of strings: strings never end behind their buffers, and    *)
(* what a client gets is a whole response.                                 *)
(***************************************************************************)
EXTENDS RimOutput, SequenceTheorems, TLAPS

\* A buffer with what is printed in it
Buffer == [len : Nat, pos : Nat, add : Nat]
Fits(w) == w \in Buffer /\ w.pos < w.len

\* Every level is a buffer with room for the null. That its fields are naturals
\* is what makes the property inductive: an enlargement never shrinks it.
LevelsFit == oLevels \in Seq(Buffer) /\ WriteStringFits

-----------------------------------------------------------------------------
(* What an enlargement leaves: room for n and the null (rimrt.c:2357).     *)

LEMMA GrownFits ==
  ASSUME NEW w, Fits(w), NEW n \in Nat
  PROVE  /\ Grown(w, n) \in Buffer
         /\ Grown(w, n).pos = w.pos
         /\ w.pos + n < Grown(w, n).len
<1>1. w.len \in Nat /\ w.pos \in Nat /\ w.add \in Nat
  BY DEF Fits, Buffer
<1>2. Adjusted(w.add) \in Nat
  BY <1>1, OutAssumption DEF Adjusted
<1>3. CASE n < w.len - w.pos
  <2>1. Grown(w, n) = w
    BY <1>3 DEF Grown
  <2> QED
    BY <1>1, <1>3, <2>1 DEF Fits
<1>4. CASE ~(n < w.len - w.pos)
  <2> DEFINE more == w.len + n + w.add
             add == Adjusted(w.add)
  <2>1. w \in Buffer /\ more \in Nat /\ add \in Nat
    BY <1>1, <1>2 DEF Fits
  <2>2. Grown(w, n) = [w EXCEPT !.len = more, !.add = add]
    BY <1>4 DEF Grown
  <2>3. /\ Grown(w, n) \in Buffer
        /\ Grown(w, n).pos = w.pos
        /\ Grown(w, n).len = more
    <3> HIDE DEF more, add
    <3> QED
      BY <2>1, <2>2 DEF Buffer
  <2> QED
    BY <1>1, <2>3 DEF Fits
<1> QED
  BY <1>3, <1>4

\* rim_puts_to_string() (rimrt.c:2340) leaves the text within the buffer.
LEMMA PutTextFits ==
  ASSUME NEW w, Fits(w), NEW n \in Nat
  PROVE  Fits(PutText(w, n)) /\ w.pos < PutText(w, n).len
<1>1. /\ Grown(w, n) \in Buffer
      /\ w.pos + n < Grown(w, n).len
  BY GrownFits
<1>2. w.pos \in Nat
  BY DEF Fits, Buffer
<1>3. /\ PutText(w, n) \in Buffer
      /\ PutText(w, n).pos = w.pos + n
      /\ PutText(w, n).len = Grown(w, n).len
  BY <1>1, <1>2 DEF PutText, Buffer
<1> QED
  BY <1>1, <1>2, <1>3 DEF Fits, Buffer

\* rim_printf() with encoding (rimrt.c:2313) takes the text back and puts
\* another in its place.
LEMMA PutEncodedFits ==
  ASSUME NEW w, Fits(w), NEW n \in Nat, NEW m \in Nat
  PROVE  Fits(PutEncoded(w, n, m))
<1> DEFINE back == [PutText(w, n) EXCEPT !.pos = w.pos]
<1>1. Fits(PutText(w, n)) /\ w.pos < PutText(w, n).len
  BY PutTextFits
<1>2. Fits(back)
  BY <1>1 DEF Fits, Buffer
<1>3. Fits(PutText(back, m))
  BY <1>2, PutTextFits
<1> QED
  BY <1>3 DEF PutEncoded

\* rim_puts() with encoding (rimrt.c:2188) writes at most six times the text.
LEMMA PutEnlargedFits ==
  ASSUME NEW w, Fits(w), NEW n \in Nat, NEW m \in n .. n * 6
  PROVE  Fits(PutEnlarged(w, n, m))
<1>1. n * 6 + 1 \in Nat /\ m \in Nat /\ m <= n * 6
  OBVIOUS
<1>2. /\ Grown(w, n * 6 + 1) \in Buffer
      /\ w.pos + (n * 6 + 1) < Grown(w, n * 6 + 1).len
  BY <1>1, GrownFits
<1>3. w.pos \in Nat
  BY DEF Fits, Buffer
<1>4. /\ PutEnlarged(w, n, m) \in Buffer
      /\ PutEnlarged(w, n, m).pos = w.pos + m
      /\ PutEnlarged(w, n, m).len = Grown(w, n * 6 + 1).len
  BY <1>1, <1>2, <1>3 DEF PutEnlarged, Buffer
<1> QED
  BY <1>1, <1>2, <1>3, <1>4 DEF Fits, Buffer

\* A new level (rimrt.c:208) is empty.
LEMMA NewLevelFits == Fits(NewLevel)
BY OutAssumption DEF Fits, NewLevel, Buffer

-----------------------------------------------------------------------------
(* Steps.                                                                  *)

\* What fits is written back to the last level.
LEMMA PrintKeepsLevels ==
  ASSUME LevelsFit, NEW w, Fits(w), PrintToString(w)
  PROVE  LevelsFit'
<1>1. /\ oLevels \in Seq(Buffer)
      /\ Len(oLevels) \in 1 .. Len(oLevels)
      /\ w \in Buffer
      /\ oLevels' = [oLevels EXCEPT ![Len(oLevels)] = w]
  BY DEF LevelsFit, PrintToString, InString, Fits
<1>2. oLevels' \in Seq(Buffer) /\ DOMAIN oLevels' = DOMAIN oLevels
  BY <1>1, ExceptSeq
<1>3. ASSUME NEW i \in DOMAIN oLevels'
      PROVE  oLevels'[i].pos < oLevels'[i].len
  <2>1. CASE i = Len(oLevels)
    BY <1>1, <1>2, <1>3, <2>1 DEF Fits
  <2>2. CASE i # Len(oLevels)
    <3>1. oLevels'[i] = oLevels[i]
      BY <1>1, <1>2, <2>2
    <3> QED
      BY <1>2, <3>1 DEF LevelsFit, WriteStringFits
  <2> QED
    BY <2>1, <2>2
<1> QED
  BY <1>2, <1>3 DEF LevelsFit, WriteStringFits

\* A string in progress ends in its buffer, and what is printed has a length.
LEMMA LastLevelFits ==
  ASSUME LevelsFit, InString
  PROVE  Fits(oLevels[Len(oLevels)])
<1>1. Len(oLevels) \in DOMAIN oLevels
  BY DEF LevelsFit, InString
<1> QED
  BY <1>1 DEF LevelsFit, WriteStringFits, Fits

\* Every statement and every way out of a handler leaves levels that fit.
LEMMA StepKeepsLevels ==
  ASSUME LevelsFit, [OutNext]_outVars
  PROVE  LevelsFit'
<1> USE DEF LevelsFit
<1>1. CASE UNCHANGED oLevels
  BY <1>1 DEF WriteStringFits
<1>2. CASE oLevels' = <<>>
  BY <1>2 DEF WriteStringFits
<1>3. ASSUME NEW r, Leave(r) \/ Answers(r) PROVE LevelsFit'
  BY <1>1, <1>3 DEF Leave, Answers
<1>4. CASE ReportError
  BY <1>3, <1>4 DEF ReportError
<1>5. CASE PrintOut
  <2>1. CASE ~InString
    BY <1>3, <1>4, <1>5, <2>1 DEF PrintOut
  <2>2. CASE InString
    <3>1. PICK n \in OutText, m \in OutText :
            \/ PrintToString(PutText(oLevels[Len(oLevels)], n))
            \/ n <= m /\ PrintToString(PutEncoded(oLevels[Len(oLevels)], n, m))
            \/ m \in n .. n * 6 /\ PrintToString(PutEnlarged(oLevels[Len(oLevels)], n, m))
      BY <1>5, <2>2 DEF PrintOut
    <3>2. n \in Nat /\ m \in Nat
      BY OutAssumption
    <3> QED
      BY <2>2, <3>1, <3>2, LastLevelFits, PutTextFits, PutEncodedFits, PutEnlargedFits,
         PrintKeepsLevels
  <2> QED
    BY <2>1, <2>2
<1>6. CASE WriteString
  <2>1. CASE oLevels' = Append(oLevels, NewLevel)
    <3>1. oLevels' \in Seq(Buffer)
      BY <2>1, NewLevelFits DEF Fits
    <3>2. ASSUME NEW i \in DOMAIN oLevels'
          PROVE  oLevels'[i].pos < oLevels'[i].len
      <4>1. CASE i \in DOMAIN oLevels
        BY <2>1, <4>1 DEF WriteStringFits
      <4>2. CASE i = Len(oLevels) + 1
        BY <2>1, <4>2, NewLevelFits DEF Fits
      <4> QED
        BY <2>1, <3>2, <4>1, <4>2
    <3> QED
      BY <3>1, <3>2 DEF WriteStringFits
  <2> QED
    BY <1>4, <1>6, <2>1 DEF WriteString
<1>7. CASE EndWriteString
  <2>1. /\ oLevels' = SubSeq(oLevels, 1, Len(oLevels) - 1)
        /\ Len(oLevels) \in Nat
    BY <1>7 DEF EndWriteString
  <2>2. CASE Len(oLevels) = 0
    BY <1>2, <2>1, <2>2
  <2>3. CASE Len(oLevels) # 0
    <3>1. /\ oLevels' \in Seq(Buffer)
          /\ DOMAIN oLevels' = 1 .. Len(oLevels) - 1
          /\ \A i \in DOMAIN oLevels' : oLevels'[i] = oLevels[i]
      BY <2>1, <2>3
    <3>2. \A i \in DOMAIN oLevels' : i \in DOMAIN oLevels
      BY <2>1, <3>1
    <3> QED
      BY <3>1, <3>2 DEF WriteStringFits
  <2> QED
    BY <2>2, <2>3
<1>8. CASE OutHeader \/ SilentHeader \/ SetCookie \/ DeleteCookie \/ FinishOutput
  BY <1>3, <1>4, <1>8 DEF OutHeader, SilentHeader, SetCookie, DeleteCookie, FinishOutput
<1>9. CASE SendFile \/ ReportErrorStatement
  BY <1>3, <1>4, <1>9 DEF SendFile, ReportErrorStatement
<1>10. CASE ExitHandler \/ ReturnHandler \/ EndRequest
  BY <1>1, <1>10 DEF ExitHandler, ReturnHandler, EndRequest
<1>11. CASE AcceptRequest
  BY <1>2, <1>11 DEF AcceptRequest
<1>12. CASE UNCHANGED outVars
  BY <1>1, <1>12 DEF outVars
<1> QED
  BY <1>4, <1>5, <1>6, <1>7, <1>8, <1>9, <1>10, <1>11, <1>12 DEF OutNext, OutStatement

-----------------------------------------------------------------------------
\* A string printed to by rim_puts_to_string(), rim_printf() and rim_puts()
\* always has room for the null behind it, for every size of buffers and
\* texts and every number of levels.
THEOREM StringsFit == OutSpec => []WriteStringFits
<1>1. OutInit => LevelsFit
  BY DEF OutInit, LevelsFit, WriteStringFits
<1>2. LevelsFit /\ [OutNext]_outVars => LevelsFit'
  BY StepKeepsLevels
<1>3. LevelsFit => WriteStringFits
  BY DEF LevelsFit
<1> QED
  BY <1>1, <1>2, <1>3, PTL DEF OutSpec

-----------------------------------------------------------------------------
(***************************************************************************)
(* The response. A stream the client gets is one of a few: nothing, a head *)
(* alone, or a head with its end and what may follow it.                   *)

Words == Texts \cup {"head", "cookie", "blank"}
Kinds == {"silence", "cookie", "bare", "again"}
Request == [header : BOOLEAN, data : BOOLEAN, disabled : BOOLEAN, silent : BOOLEAN,
            cookie : BOOLEAN, finished : BOOLEAN, client : Seq(Words),
            error : BOOLEAN, odd : SUBSET Kinds]

\* The streams that begin a response.
Alone == Append(<<>>, "head")
Page == Append(Alone, "blank")
CookiePage == Append(Append(Alone, "cookie"), "blank")
Opened == {Page, CookiePage}

\* What may follow h, when an error was reported and when not.
Bodies(h, e) == IF e THEN {Append(h, "error"), Append(Append(h, "text"), "error")}
                ELSE {h, Append(h, "text")}

\* WriteClient on a stream that is not closed
Extended(c, what) ==
  IF what = "text" /\ c # <<>> /\ c[Len(c)] = what THEN c ELSE Append(c, what)

\* The program did nothing that leaves a response without its form.
Plain(r) == r.odd \cap {"again", "silence"} = {}

\* A head, its cookies and the blank line make up the beginning of a page.
LEMMA HeadFacts ==
  /\ Extended(<<>>, "head") = Alone
  /\ Extended(Alone, "blank") = Page
  /\ Extended(Extended(Alone, "cookie"), "blank") = CookiePage
BY DEF Extended, Alone, Page, CookiePage

\* A text or an error behind what may follow a head may follow it, too.
LEMMA BodyFacts ==
  ASSUME NEW h \in Opened \cup {<<>>}, NEW c \in Bodies(h, FALSE)
  PROVE  /\ Extended(c, "text") \in Bodies(h, FALSE)
         /\ Extended(c, "error") \in Bodies(h, TRUE)
<1>1. h \in Seq(Words) /\ (h # <<>> => h[Len(h)] = "blank")
  <2>1. Alone \in Seq(Words) /\ Append(Alone, "cookie") \in Seq(Words)
    BY DEF Alone, Words
  <2>2. ASSUME NEW g \in Seq(Words)
        PROVE  Append(g, "blank") \in Seq(Words) /\ Append(g, "blank")[Len(Append(g, "blank"))] = "blank"
    <3>1. "blank" \in Words
      BY DEF Words
    <3>2. /\ Append(g, "blank") \in Seq(Words)
          /\ Len(Append(g, "blank")) = Len(g) + 1
          /\ Append(g, "blank")[Len(g) + 1] = "blank"
      BY <3>1, AppendProperties, Zenon
    <3> QED
      BY <3>2
  <2>3. CASE h = Page
    BY <2>1, <2>2, <2>3 DEF Page
  <2>4. CASE h = CookiePage
    BY <2>1, <2>2, <2>4 DEF CookiePage
  <2>5. CASE h = <<>>
    BY <2>5
  <2> QED
    BY <2>3, <2>4, <2>5 DEF Opened
<1>2. Extended(c, "error") = Append(c, "error")
  BY DEF Extended
<1>3. CASE c = h
  <2>1. Extended(c, "text") = Append(h, "text")
    BY <1>1, <1>3 DEF Extended
  <2> QED
    BY <1>2, <1>3, <2>1 DEF Bodies
<1>4. CASE c = Append(h, "text")
  <2>1. c # <<>> /\ c[Len(c)] = "text"
    BY <1>1, <1>4 DEF Words, Texts
  <2>2. Extended(c, "text") = c
    BY <2>1 DEF Extended
  <2> QED
    BY <1>2, <1>4, <2>2 DEF Bodies
<1> QED
  BY <1>3, <1>4 DEF Bodies

\* Everything but the stream
Same(w, r) ==
  /\ w.header = r.header /\ w.data = r.data /\ w.disabled = r.disabled
  /\ w.silent = r.silent /\ w.cookie = r.cookie /\ w.finished = r.finished
  /\ w.error = r.error /\ w.odd = r.odd

\* rim_gen_write() changes nothing but the stream, and that only while the
\* output is not finished.
LEMMA Written ==
  ASSUME NEW r \in Request, NEW what \in Words
  PROVE  /\ WriteClient(r, what) \in Request /\ Same(WriteClient(r, what), r)
         /\ r.finished => WriteClient(r, what) = r
         /\ ~r.finished /\ Plain(r) => WriteClient(r, what).client = Extended(r.client, what)
<1> DEFINE c == Append(r.client, what)
<1>1. c \in Seq(Words) /\ r.client \in Seq(Words)
  BY DEF Request
<1>2. \/ WriteClient(r, what) = r
      \/ WriteClient(r, what) = [r EXCEPT !.client = c]
  BY DEF WriteClient
<1>3. [r EXCEPT !.client = c] \in Request /\ [r EXCEPT !.client = c].client = c /\ Same([r EXCEPT !.client = c], r)
  <2> HIDE DEF c
  <2> QED
   BY <1>1 DEF Request, Same
<1>4. WriteClient(r, what) \in Request /\ Same(WriteClient(r, what), r)
  BY <1>2, <1>3 DEF Same
<1>5. ASSUME r.finished PROVE WriteClient(r, what) = r
  BY <1>5 DEF WriteClient
<1>6. ASSUME ~r.finished, Plain(r) PROVE WriteClient(r, what).client = Extended(r.client, what)
  BY <1>3, <1>6 DEF WriteClient, Extended, Plain
<1> QED
  BY <1>4, <1>5, <1>6

\* Request r with another header
LEMMA HeaderField ==
  ASSUME NEW r \in Request, NEW b \in BOOLEAN
  PROVE  LET w == [r EXCEPT !.header = b]
         IN /\ w \in Request /\ w.header = b
            /\ w.data = r.data /\ w.disabled = r.disabled /\ w.silent = r.silent /\ w.cookie = r.cookie
            /\ w.finished = r.finished /\ w.client = r.client /\ w.error = r.error /\ w.odd = r.odd
BY DEF Request

\* Request r with another data
LEMMA DataField ==
  ASSUME NEW r \in Request, NEW b \in BOOLEAN
  PROVE  LET w == [r EXCEPT !.data = b]
         IN /\ w \in Request /\ w.data = b
            /\ w.header = r.header /\ w.disabled = r.disabled /\ w.silent = r.silent /\ w.cookie = r.cookie
            /\ w.finished = r.finished /\ w.client = r.client /\ w.error = r.error /\ w.odd = r.odd
BY DEF Request

\* Request r with another disabled
LEMMA DisabledField ==
  ASSUME NEW r \in Request, NEW b \in BOOLEAN
  PROVE  LET w == [r EXCEPT !.disabled = b]
         IN /\ w \in Request /\ w.disabled = b
            /\ w.header = r.header /\ w.data = r.data /\ w.silent = r.silent /\ w.cookie = r.cookie
            /\ w.finished = r.finished /\ w.client = r.client /\ w.error = r.error /\ w.odd = r.odd
BY DEF Request

\* Request r with another silent
LEMMA SilentField ==
  ASSUME NEW r \in Request, NEW b \in BOOLEAN
  PROVE  LET w == [r EXCEPT !.silent = b]
         IN /\ w \in Request /\ w.silent = b
            /\ w.header = r.header /\ w.data = r.data /\ w.disabled = r.disabled /\ w.cookie = r.cookie
            /\ w.finished = r.finished /\ w.client = r.client /\ w.error = r.error /\ w.odd = r.odd
BY DEF Request

\* Request r with another cookie
LEMMA CookieField ==
  ASSUME NEW r \in Request, NEW b \in BOOLEAN
  PROVE  LET w == [r EXCEPT !.cookie = b]
         IN /\ w \in Request /\ w.cookie = b
            /\ w.header = r.header /\ w.data = r.data /\ w.disabled = r.disabled /\ w.silent = r.silent
            /\ w.finished = r.finished /\ w.client = r.client /\ w.error = r.error /\ w.odd = r.odd
BY DEF Request

\* Request r with another finished
LEMMA FinishedField ==
  ASSUME NEW r \in Request, NEW b \in BOOLEAN
  PROVE  LET w == [r EXCEPT !.finished = b]
         IN /\ w \in Request /\ w.finished = b
            /\ w.header = r.header /\ w.data = r.data /\ w.disabled = r.disabled /\ w.silent = r.silent
            /\ w.cookie = r.cookie /\ w.client = r.client /\ w.error = r.error /\ w.odd = r.odd
BY DEF Request

\* Request r with another error
LEMMA ErrorField ==
  ASSUME NEW r \in Request, NEW b \in BOOLEAN
  PROVE  LET w == [r EXCEPT !.error = b]
         IN /\ w \in Request /\ w.error = b
            /\ w.header = r.header /\ w.data = r.data /\ w.disabled = r.disabled /\ w.silent = r.silent
            /\ w.cookie = r.cookie /\ w.finished = r.finished /\ w.client = r.client /\ w.odd = r.odd
BY DEF Request

\* Request r with other oddities
LEMMA OddField ==
  ASSUME NEW r \in Request, NEW o \in SUBSET Kinds
  PROVE  LET w == [r EXCEPT !.odd = o]
         IN /\ w \in Request /\ w.odd = o
            /\ w.header = r.header /\ w.data = r.data /\ w.disabled = r.disabled /\ w.silent = r.silent
            /\ w.cookie = r.cookie /\ w.finished = r.finished /\ w.client = r.client /\ w.error = r.error
BY DEF Request

-----------------------------------------------------------------------------
(* How far the stream of a response has come.                              *)

Silent(r) == r.silent /\ r.client \in Bodies(<<>>, r.error)
Nothing(r) == ~r.silent /\ ~r.error /\ r.client = <<>>

\* A head without its end stays so only when the output was finished then.
HeadOnly(r) ==
  /\ ~r.silent /\ ~r.error /\ r.client = Alone
  /\ r.finished => r.header /\ "bare" \in r.odd
  /\ r.data => r.finished

Body(r) ==
  /\ ~r.silent /\ r.data
  /\ \/ r.client \in Bodies(Page, r.error) /\ (r.cookie => "cookie" \in r.odd)
     \/ r.client \in Bodies(CookiePage, r.error)

\* Between two statements, before the end of a header, and behind it
Sound(r) ==
  /\ r.data /\ ~r.header => r.disabled
  /\ \/ Silent(r) \/ Body(r)
     \/ Nothing(r) /\ (r.finished \/ (~r.header /\ ~r.data))
     \/ HeadOnly(r) /\ r.header

Begun(r) == Silent(r) \/ Body(r) \/ (Nothing(r) /\ r.finished) \/ HeadOnly(r)

Ended(r) ==
  /\ r.data
  /\ Silent(r) \/ Body(r) \/ (Nothing(r) /\ r.finished) \/ (HeadOnly(r) /\ r.finished)

\* Everything but data_was_output and the stream
Alike(w, r) ==
  /\ w.header = r.header /\ w.disabled = r.disabled
  /\ w.silent = r.silent /\ w.cookie = r.cookie /\ w.finished = r.finished
  /\ w.error = r.error /\ w.odd = r.odd

\* Where a header was sent, rim_gen_header_end() has a stream it can end.
LEMMA SoundBegun ==
  ASSUME NEW r \in Request, Sound(r), r.header \/ r.data
  PROVE  Begun(r)
BY DEF Sound, Begun

\* A stream with an ended head is one the client may get.
LEMMA EndedSound ==
  ASSUME NEW r \in Request, Ended(r), r.header \/ r.disabled
  PROVE  Sound(r)
BY DEF Sound, Ended, HeadOnly

\* rim_gen_header_end()
LEMMA HeaderEnded ==
  ASSUME NEW r \in Request, Plain(r), Begun(r)
  PROVE  /\ HeaderEnd(r) \in Request /\ Alike(HeaderEnd(r), r) /\ Ended(HeaderEnd(r))
<1>1. CASE r.data
  <2>1. HeaderEnd(r) = r
    BY <1>1 DEF HeaderEnd
  <2> QED
    BY <1>1, <2>1 DEF Alike, Begun, Ended, HeadOnly
<1>2. CASE ~r.data
  <2> DEFINE u == IF r.cookie THEN WriteHeader(r, "cookie") ELSE r
             v == WriteHeader(u, "blank")
             w == HeaderEnd(r)
  <2>1. {"cookie", "blank"} \subseteq Words
    BY DEF Words
  <2>2. u \in Request /\ Same(u, r) /\ (r.silent \/ r.finished => u = r)
        /\ (~r.silent /\ ~r.finished =>
              u.client = IF r.cookie THEN Extended(r.client, "cookie") ELSE r.client)
    BY <2>1, Written DEF WriteHeader, Same
  <2>3. Plain(u)
    BY <2>2 DEF Plain, Same
  <2> HIDE DEF u
  <2>4. v \in Request /\ Same(v, r) /\ (r.silent \/ r.finished => v = u)
        /\ (~r.silent /\ ~r.finished => v.client = Extended(u.client, "blank"))
    BY <2>1, <2>2, <2>3, Written DEF WriteHeader, Same
  <2>5. w = [v EXCEPT !.data = TRUE]
    BY <1>2 DEF HeaderEnd, u
  <2> HIDE DEF v, w
  <2>6. w \in Request /\ w.data /\ Alike(w, r) /\ w.client = v.client
    BY <2>4, <2>5, DataField DEF Alike, Same
  <2>7. CASE r.silent \/ r.finished
    <3>1. w.client = r.client
      BY <2>2, <2>4, <2>6, <2>7
    <3> QED
      BY <1>2, <2>6, <2>7, <3>1 DEF w, Begun, Ended, Silent, Nothing, HeadOnly, Body, Alike
  <2>8. CASE ~r.silent /\ ~r.finished
    <3>1. HeadOnly(r) /\ r.client = Alone
      BY <1>2, <2>8 DEF Begun, Silent, Body, HeadOnly
    <3>2. w.client = IF r.cookie THEN CookiePage ELSE Page
      BY <2>2, <2>4, <2>6, <2>8, <3>1, HeadFacts
    <3>3. Body(w)
      BY <2>6, <3>1, <3>2 DEF Body, Bodies, Alike, HeadOnly
    <3> QED
      BY <2>6, <3>3 DEF w, Ended
  <2> QED
    BY <2>7, <2>8
<1> QED
  BY <1>1, <1>2

\* rim_output_http_header()
LEMMA HeaderWritten ==
  ASSUME NEW r \in Request, Plain(r), Sound(r), ~r.error
  PROVE  LET w == OutputHeader(r)
         IN /\ w \in Request /\ Sound(w) /\ w.odd = r.odd /\ w.error = r.error
            /\ w.disabled = r.disabled /\ w.silent = r.silent
            /\ ~r.disabled => w.header
            /\ w.header => r.header \/ ~r.disabled
<1>1. CASE r.header \/ r.disabled
  BY <1>1 DEF OutputHeader
<1>2. CASE ~r.header /\ ~r.disabled
  <2> DEFINE u == [r EXCEPT !.header = TRUE]
             w == OutputHeader(r)
  <2>1. ~r.data
    BY <1>2 DEF Sound
  <2>2. /\ u \in Request /\ u.header /\ u.data = r.data /\ u.disabled = r.disabled
        /\ u.silent = r.silent /\ u.cookie = r.cookie /\ u.finished = r.finished
        /\ u.client = r.client /\ u.error = r.error /\ u.odd = r.odd
    BY HeaderField
  <2>3. Plain(u) /\ "head" \in Words
    BY <2>2 DEF Plain, Words
  <2>4. w = WriteHeader(u, "head")
    BY <1>2 DEF OutputHeader
  <2> HIDE DEF u
  <2>5. /\ w \in Request /\ Same(w, u)
        /\ r.silent \/ r.finished => w = u
        /\ ~r.silent /\ ~r.finished => w.client = Extended(u.client, "head")
    <3>1. w = IF r.silent THEN u ELSE WriteClient(u, "head")
      BY <2>2, <2>4 DEF WriteHeader
    <3>2. /\ WriteClient(u, "head") \in Request /\ Same(WriteClient(u, "head"), u)
          /\ r.finished => WriteClient(u, "head") = u
          /\ ~r.finished => WriteClient(u, "head").client = Extended(u.client, "head")
      BY <2>2, <2>3, Written
    <3>3. Same(u, u)
      BY DEF Same
    <3> QED
      BY <2>2, <3>1, <3>2, <3>3
  <2> HIDE DEF w
  <2>6. Silent(r) \/ Nothing(r)
    BY <1>2, <2>1 DEF Sound, Body
  <2>7. Sound(w)
    <3>1. CASE r.silent \/ r.finished
      BY <1>2, <2>2, <2>5, <2>6, <2>1, <3>1 DEF Sound, Silent, Nothing
    <3>2. CASE ~r.silent /\ ~r.finished
      <4>1. w.client = Alone
        BY <2>2, <2>5, <2>6, <3>2, HeadFacts DEF Nothing, Silent
      <4> QED
        BY <2>2, <2>5, <2>1, <3>2, <4>1 DEF Sound, HeadOnly, Same
    <3> QED
      BY <3>1, <3>2
  <2> QED
    BY <1>2, <2>2, <2>5, <2>7 DEF w, Same
<1> QED
  BY <1>1, <1>2

\* What is printed behind the header
LEMMA TextWritten ==
  ASSUME NEW r \in Request, Plain(r), Ended(r), ~r.error
  PROVE  LET w == WriteClient(r, "text")
         IN w \in Request /\ Same(w, r) /\ Ended(w)
<1> DEFINE w == WriteClient(r, "text")
<1>1. "text" \in Words
  BY DEF Words, Texts
<1>2. /\ w \in Request /\ Same(w, r)
      /\ r.finished => w = r
      /\ ~r.finished => w.client = Extended(r.client, "text")
  BY <1>1, Written
<1> HIDE DEF w
<1>3. CASE r.finished
  BY <1>2, <1>3 DEF w, Same
<1>4. CASE ~r.finished
  <2>1. Silent(r) \/ Body(r)
    BY <1>4 DEF Ended
  <2>2. /\ r.client \in Bodies(<<>>, FALSE) => w.client \in Bodies(<<>>, FALSE)
        /\ r.client \in Bodies(Page, FALSE) => w.client \in Bodies(Page, FALSE)
        /\ r.client \in Bodies(CookiePage, FALSE) => w.client \in Bodies(CookiePage, FALSE)
    BY <1>2, <1>4, BodyFacts DEF Opened
  <2>3. r.error = FALSE /\ w.error = FALSE
    BY <1>2 DEF Same, Request
  <2>4. Silent(w) \/ Body(w)
    BY <1>2, <2>1, <2>2, <2>3 DEF Silent, Body, Same
  <2> QED
    BY <1>2, <2>4 DEF w, Ended, Same
<1> QED
  BY <1>3, <1>4

\* rim_server_error() and the like
LEMMA ErrorHeadEnded ==
  ASSUME NEW r \in Request, Plain(r), Sound(r), ~r.error, r.data => r.header
  PROVE  LET w == ErrorHead(r)
         IN /\ w \in Request /\ Ended(w) /\ w.odd = r.odd /\ w.error = r.error
            /\ w.header /\ w.finished = r.finished /\ w.disabled = r.disabled
<1> DEFINE u == [r EXCEPT !.header = TRUE]
           v == IF r.header THEN r ELSE WriteHeader(u, "head")
<1>1. /\ u \in Request /\ u.header /\ u.data = r.data /\ u.disabled = r.disabled
      /\ u.silent = r.silent /\ u.cookie = r.cookie /\ u.finished = r.finished
      /\ u.client = r.client /\ u.error = r.error /\ u.odd = r.odd
  BY HeaderField
<1>2. Plain(u) /\ "head" \in Words
  BY <1>1 DEF Plain, Words
<1>3. ErrorHead(r) = HeaderEnd(v)
  BY DEF ErrorHead
<1> HIDE DEF u
<1>4. /\ v \in Request /\ v.header /\ v.odd = r.odd /\ v.error = r.error /\ v.finished = r.finished
      /\ v.disabled = r.disabled /\ Begun(v)
  <2>1. CASE r.header
    BY <2>1, SoundBegun
  <2>2. CASE ~r.header
    <3>1. /\ v \in Request /\ Same(v, u)
          /\ r.silent \/ r.finished => v = u
          /\ ~r.silent /\ ~r.finished => v.client = Extended(u.client, "head")
      <4>1. v = IF r.silent THEN u ELSE WriteClient(u, "head")
        BY <1>1, <2>2 DEF WriteHeader
      <4>2. /\ WriteClient(u, "head") \in Request /\ Same(WriteClient(u, "head"), u)
            /\ r.finished => WriteClient(u, "head") = u
            /\ ~r.finished => WriteClient(u, "head").client = Extended(u.client, "head")
        BY <1>1, <1>2, Written
      <4>3. Same(u, u)
        BY DEF Same
      <4> QED
        BY <1>1, <4>1, <4>2, <4>3
    <3> HIDE DEF v
    <3>2. Silent(r) \/ Nothing(r)
      BY <2>2 DEF Sound, Body
    <3>3. CASE r.silent \/ r.finished
      BY <1>1, <3>1, <3>2, <3>3 DEF Begun, Silent, Nothing
    <3>4. CASE ~r.silent /\ ~r.finished
      <4>1. v.client = Alone
        BY <1>1, <3>1, <3>2, <3>4, HeadFacts DEF Nothing, Silent
      <4> QED
        BY <1>1, <2>2, <3>1, <3>4, <4>1 DEF Begun, HeadOnly, Same
    <3>5. Begun(v)
      BY <3>3, <3>4
    <3> QED
      BY <1>1, <3>1, <3>5 DEF Same
  <2> QED
    BY <2>1, <2>2
<1>5. Plain(v)
  BY <1>4 DEF Plain
<1> HIDE DEF v
<1> QED
  BY <1>3, <1>4, <1>5, HeaderEnded DEF Alike

\* _rim_report_error()
LEMMA ErrorReported ==
  ASSUME NEW r \in Request, Plain(r), Sound(r), ~r.error, r.data => r.header
  PROVE  LET w == Reported(r)
         IN w \in Request /\ w.odd = r.odd /\ Sound(w)
<1> DEFINE e == ErrorHead(r)
           u == [e EXCEPT !.error = ~r.finished]
           w == WriteClient(u, "error")
<1>1. /\ e \in Request /\ Ended(e) /\ e.odd = r.odd /\ ~e.error
      /\ e.header /\ e.finished = r.finished
  BY ErrorHeadEnded
<1>2. w = Reported(r) /\ (~r.finished) \in BOOLEAN
  BY DEF Reported
<1> HIDE DEF e
<1>3. /\ u \in Request /\ u.error = ~r.finished /\ u.header = e.header /\ u.data = e.data
      /\ u.disabled = e.disabled /\ u.silent = e.silent /\ u.cookie = e.cookie
      /\ u.finished = e.finished /\ u.client = e.client /\ u.odd = e.odd
  <2>1. PICK b \in BOOLEAN : b = ~r.finished
    BY <1>2
  <2>2. u = [e EXCEPT !.error = b]
    BY <2>1
  <2> HIDE DEF u
  <2>3. /\ u \in Request /\ u.error = b /\ u.header = e.header /\ u.data = e.data
        /\ u.disabled = e.disabled /\ u.silent = e.silent /\ u.cookie = e.cookie
        /\ u.finished = e.finished /\ u.client = e.client /\ u.odd = e.odd
    BY <1>1, <2>2 DEF Request
  <2> QED
    BY <2>1, <2>3
<1>4. Plain(u) /\ "error" \in Words
  BY <1>1, <1>3 DEF Plain, Words, Texts
<1> HIDE DEF u
<1>5. /\ w \in Request /\ Same(w, u)
      /\ r.finished => w = u
      /\ ~r.finished => w.client = Extended(e.client, "error")
  BY <1>1, <1>3, <1>4, Written
<1> HIDE DEF w
<1>7. e.error = FALSE /\ w.error = ~r.finished /\ (~r.finished) \in BOOLEAN
  BY <1>1, <1>2, <1>3, <1>5 DEF Request, Same
<1>6. Ended(w)
  <2>1. CASE r.finished
    <3>1. w = u /\ w.error = FALSE
      BY <1>5, <1>7, <2>1
    <3> QED
      BY <1>1, <1>3, <1>7, <3>1 DEF Ended, Silent, Body, Nothing, HeadOnly
  <2>2. CASE ~r.finished
    <3>1. Silent(e) \/ Body(e)
      BY <1>1, <2>2 DEF Ended
    <3>2. /\ e.client \in Bodies(<<>>, FALSE) => w.client \in Bodies(<<>>, TRUE)
          /\ e.client \in Bodies(Page, FALSE) => w.client \in Bodies(Page, TRUE)
          /\ e.client \in Bodies(CookiePage, FALSE) => w.client \in Bodies(CookiePage, TRUE)
      BY <1>5, <2>2, BodyFacts DEF Opened
    <3>3. w.error = TRUE
      BY <1>7, <2>2
    <3>4. Silent(w) \/ Body(w)
      BY <1>3, <1>5, <1>7, <3>1, <3>2, <3>3 DEF Silent, Body, Same
    <3> QED
      BY <1>1, <1>3, <1>5, <3>4 DEF Ended, Same
  <2> QED
    BY <2>1, <2>2
<1> QED
  BY <1>1, <1>2, <1>3, <1>5, <1>6, EndedSound DEF Same

\* rim_write_web()
LEMMA WebWritten ==
  ASSUME NEW r \in Request, Plain(r), Sound(r), ~r.error, r.header \/ ~r.disabled
  PROVE  LET w == WriteWeb(r, "text")
         IN /\ w \in Request /\ w.odd = r.odd /\ ~w.error /\ Ended(w) /\ w.header
            /\ w.disabled = r.disabled
            /\ HeaderEnd(OutputHeader(r)) \in Request
            /\ HeaderEnd(OutputHeader(r)).odd = r.odd /\ ~HeaderEnd(OutputHeader(r)).error
            /\ Sound(HeaderEnd(OutputHeader(r)))
<1> DEFINE u == OutputHeader(r)
           v == HeaderEnd(u)
           w == WriteClient(v, "text")
<1>1. w = WriteWeb(r, "text")
  BY DEF WriteWeb
<1>2. /\ u \in Request /\ Sound(u) /\ u.odd = r.odd /\ u.error = r.error
      /\ u.disabled = r.disabled /\ u.header
  <2>1. CASE r.header
    BY <2>1, OutputHeader(r) = r DEF OutputHeader
  <2>2. CASE ~r.header
    BY <2>2, HeaderWritten
  <2> QED
    BY <2>1, <2>2
<1>3. Plain(u)
  BY <1>2 DEF Plain
<1> HIDE DEF u
<1>4. v \in Request /\ Alike(v, u) /\ Ended(v)
  BY <1>2, <1>3, SoundBegun, HeaderEnded
<1>5. Plain(v) /\ ~v.error
  BY <1>2, <1>3, <1>4 DEF Plain, Alike
<1> HIDE DEF v
<1>6. w \in Request /\ Same(w, v) /\ Ended(w)
  BY <1>4, <1>5, TextWritten
<1>7. Sound(v)
  BY <1>2, <1>4, EndedSound DEF Alike
<1> HIDE DEF w
<1> QED
  BY <1>1, <1>2, <1>4, <1>5, <1>6, <1>7 DEF Alike, Same, u, v

-----------------------------------------------------------------------------
(* Every statement leaves the response sound, unless the program did what  *)
(* no check stops. Within a handler no error was reported yet.             *)

OutInv ==
  /\ oReq \in Request
  /\ Plain(oReq) =>
       /\ Sound(oReq)
       /\ InHandler => ~oReq.error
       /\ oPhase = "accept" => oReq.finished

\* A response that is sound when the program did nothing odd
Fine(r) == r \in Request /\ (Plain(r) => Sound(r) /\ ~r.error)

\* send-file, or an error, where a file the client has was answered before
LEMMA AgainFine ==
  ASSUME NEW r, Fine(r)
  PROVE  /\ Fine(Again(r)) /\ Again(r).disabled = r.disabled /\ Again(r).header = r.header
         /\ Plain(Again(r)) => Again(r) = r /\ (r.data => r.header)
<1> DEFINE o == r.odd \cup {"again"}
<1>1. r \in Request
  BY DEF Fine
<1>2. CASE r.data /\ ~r.header
  <2>1. Again(r) = [r EXCEPT !.odd = o]
    BY <1>2 DEF Again, Odd
  <2>2. o \in SUBSET Kinds
    BY <1>1 DEF Request, Kinds
  <2>3. Again(r) \in Request /\ Again(r).odd = o
        /\ Again(r).disabled = r.disabled /\ Again(r).header = r.header
    BY <1>1, <2>1, <2>2, OddField
  <2>4. ~Plain(Again(r))
    BY <2>3 DEF Plain
  <2> QED
    BY <2>3, <2>4 DEF Fine
<1>3. CASE ~(r.data /\ ~r.header)
  <2>1. Again(r) = r
    BY <1>3 DEF Again
  <2> QED
    BY <1>3, <2>1
<1> QED
  BY <1>2, <1>3

\* Whatever is done to a response keeps its type.
LEMMA ResponseTyped ==
  ASSUME NEW r \in Request, NEW what \in Words
  PROVE  /\ WriteHeader(r, what) \in Request /\ WriteHeader(r, what).odd = r.odd
         /\ HeaderEnd(r) \in Request /\ HeaderEnd(r).odd = r.odd
         /\ OutputHeader(r) \in Request /\ OutputHeader(r).odd = r.odd
         /\ ErrorHead(r) \in Request /\ ErrorHead(r).odd = r.odd
         /\ WriteWeb(r, "text") \in Request /\ WriteWeb(r, "text").odd = r.odd
         /\ Reported(r) \in Request /\ Reported(r).odd = r.odd
<1>1. {"head", "cookie", "blank", "text", "error"} \subseteq Words
  BY DEF Words, Texts
<1>2. ASSUME NEW q \in Request, NEW x \in Words
      PROVE  WriteClient(q, x) \in Request /\ WriteClient(q, x).odd = q.odd
  BY Written DEF Same
<1>3. ASSUME NEW q \in Request, NEW x \in Words
      PROVE  WriteHeader(q, x) \in Request /\ WriteHeader(q, x).odd = q.odd
  BY <1>2 DEF WriteHeader
<1>4. ASSUME NEW q \in Request PROVE HeaderEnd(q) \in Request /\ HeaderEnd(q).odd = q.odd
  <2> DEFINE u == IF q.cookie THEN WriteHeader(q, "cookie") ELSE q
             v == WriteHeader(u, "blank")
  <2>1. u \in Request /\ u.odd = q.odd
    BY <1>1, <1>3
  <2> HIDE DEF u
  <2>2. v \in Request /\ v.odd = q.odd
    BY <1>1, <1>3, <2>1
  <2>3. HeaderEnd(q) = q \/ HeaderEnd(q) = [v EXCEPT !.data = TRUE]
    BY DEF HeaderEnd, u
  <2> HIDE DEF v
  <2> QED
    <3>1. [v EXCEPT !.data = TRUE] \in Request /\ [v EXCEPT !.data = TRUE].odd = v.odd
      BY <2>2, DataField
    <3> QED
      BY <2>2, <2>3, <3>1
<1>5. ASSUME NEW q \in Request
      PROVE  [q EXCEPT !.header = TRUE] \in Request /\ [q EXCEPT !.header = TRUE].odd = q.odd
  BY HeaderField
<1>6. ASSUME NEW q \in Request PROVE OutputHeader(q) \in Request /\ OutputHeader(q).odd = q.odd
  BY <1>1, <1>3, <1>5 DEF OutputHeader
<1>7. ASSUME NEW q \in Request PROVE ErrorHead(q) \in Request /\ ErrorHead(q).odd = q.odd
  <2> DEFINE v == IF q.header THEN q ELSE WriteHeader([q EXCEPT !.header = TRUE], "head")
  <2>1. v \in Request /\ v.odd = q.odd
    BY <1>1, <1>3, <1>5
  <2>2. ErrorHead(q) = HeaderEnd(v)
    BY DEF ErrorHead
  <2> HIDE DEF v
  <2> QED
    BY <1>4, <2>1, <2>2
<1>8. WriteWeb(r, "text") \in Request /\ WriteWeb(r, "text").odd = r.odd
  BY <1>1, <1>2, <1>4, <1>6 DEF WriteWeb
<1>9. Reported(r) \in Request /\ Reported(r).odd = r.odd
  <2> DEFINE e == ErrorHead(r)
             u == [e EXCEPT !.error = ~r.finished]
  <2>1. Reported(r) = WriteClient(u, "error") /\ (~r.finished) \in BOOLEAN
    BY DEF Reported
  <2>2. e \in Request /\ e.odd = r.odd
    BY <1>7
  <2> HIDE DEF e
  <2>3. u \in Request /\ u.odd = r.odd
    BY <2>1, <2>2, ErrorField
  <2> HIDE DEF u
  <2>4. WriteClient(u, "error") \in Request /\ WriteClient(u, "error").odd = u.odd
    BY <1>1, <1>2, <2>3
  <2> QED
    BY <2>1, <2>3, <2>4
<1> QED
  BY <1>3, <1>4, <1>6, <1>7, <1>8, <1>9

\* An error, in a handler or outside
LEMMA ReportFine ==
  ASSUME NEW r, Fine(r)
  PROVE  LET w == Reported(Again(r))
         IN w \in Request /\ (Plain(w) => Sound(w))
<1> DEFINE a == Again(r)
           w == Reported(a)
<1>1. /\ a \in Request
      /\ Plain(a) => a = r /\ Sound(r) /\ ~r.error /\ (r.data => r.header)
  BY AgainFine DEF Fine
<1> HIDE DEF a
<1>2. w \in Request /\ w.odd = a.odd
  BY <1>1, "text" \in Words, ResponseTyped DEF Words, Texts
<1>3. Plain(w) => Plain(a)
  BY <1>2 DEF Plain
<1>4. Plain(a) => Sound(w)
  BY <1>1, ErrorReported
<1> HIDE DEF w
<1>5. w \in Request /\ (Plain(w) => Sound(w))
  BY <1>2, <1>3, <1>4
<1> QED
  BY <1>5 DEF w, a

\* print-out and the other statements of a page
LEMMA PageFine ==
  ASSUME NEW r, Fine(r), r.header \/ ~r.disabled
  PROVE  Fine(HeaderEnd(OutputHeader(r))) /\ Fine(WriteWeb(r, "text"))
<1>1. r \in Request /\ "text" \in Words /\ OutputHeader(r) \in Request
  BY ResponseTyped, "text" \in Words DEF Fine, Words, Texts
<1>2. /\ HeaderEnd(OutputHeader(r)) \in Request /\ HeaderEnd(OutputHeader(r)).odd = r.odd
      /\ WriteWeb(r, "text") \in Request /\ WriteWeb(r, "text").odd = r.odd
  BY <1>1, ResponseTyped
<1>3. CASE ~Plain(r)
  BY <1>2, <1>3 DEF Fine, Plain
<1>4. CASE Plain(r)
  <2>1. Sound(r) /\ ~r.error
    BY <1>4 DEF Fine
  <2>2. /\ ~WriteWeb(r, "text").error /\ Ended(WriteWeb(r, "text")) /\ WriteWeb(r, "text").header
        /\ ~HeaderEnd(OutputHeader(r)).error /\ Sound(HeaderEnd(OutputHeader(r)))
    BY <1>1, <1>4, <2>1, WebWritten
  <2> QED
    BY <1>2, <2>2, EndedSound DEF Fine
<1> QED
  BY <1>3, <1>4

\* send-file: the four answers
LEMMA SendFileFine ==
  ASSUME NEW q \in Request, Fine(q), ~q.header
  PROVE  LET r == Again([q EXCEPT !.disabled = TRUE])
         IN Fine(Missing(r)) /\ Fine(Unmodified(r)) /\ Fine(AsPage(r)) /\ Fine(AsFile(r))
<1> DEFINE d == [q EXCEPT !.disabled = TRUE]
           r == Again(d)
           n == [r EXCEPT !.disabled = FALSE]
           p == WriteWeb(n, "text")
           h == WriteHeader(r, "head")
           f == [h EXCEPT !.header = TRUE]
<1>1. /\ d \in Request /\ d.disabled /\ d.header = q.header /\ d.data = q.data
      /\ d.silent = q.silent /\ d.cookie = q.cookie /\ d.finished = q.finished
      /\ d.client = q.client /\ d.error = q.error /\ d.odd = q.odd
  BY DisabledField
<1> HIDE DEF d
<1>2. Fine(d) /\ ~d.header
  BY <1>1 DEF Fine, Plain, Sound, Silent, Body, Nothing, HeadOnly
<1>3. /\ Fine(r) /\ r.disabled /\ ~r.header
      /\ Plain(r) => ~r.data
  BY <1>1, <1>2, AgainFine
<1> HIDE DEF r
<1>4. r \in Request /\ {"head", "text"} \subseteq Words
  BY <1>3 DEF Fine, Words, Texts
<1>5. Plain(r) => Sound(r) /\ ~r.error /\ (Silent(r) \/ Nothing(r))
  BY <1>3 DEF Fine, Sound, Body
<1>6. /\ n \in Request /\ n.disabled = FALSE /\ n.header = r.header /\ n.data = r.data
      /\ n.silent = r.silent /\ n.cookie = r.cookie /\ n.finished = r.finished
      /\ n.client = r.client /\ n.error = r.error /\ n.odd = r.odd
  BY <1>4, DisabledField
<1> HIDE DEF n
<1>7. Fine(n)
  BY <1>3, <1>5, <1>6 DEF Fine, Plain, Sound, Silent, Nothing
<1>8. /\ p \in Request /\ p.odd = r.odd
      /\ Plain(r) => Ended(p) /\ p.header /\ ~p.error
  <2>1. p \in Request /\ p.odd = n.odd
    BY <1>4, <1>6, ResponseTyped
  <2>2. ASSUME Plain(r) PROVE Ended(p) /\ p.header /\ ~p.error
    <3>1. Plain(n) /\ Sound(n) /\ ~n.error /\ ~n.disabled
      BY <1>6, <1>7, <2>2 DEF Fine, Plain
    <3> QED
      BY <1>6, <3>1, WebWritten
  <2> QED
    BY <1>6, <2>1, <2>2
<1> HIDE DEF p
<1>9. Fine(AsPage(r))
  <2> DEFINE w == [p EXCEPT !.disabled = TRUE]
  <2>1. AsPage(r) = w
    BY DEF AsPage, p, n
  <2>2. /\ w \in Request /\ w.disabled = TRUE /\ w.header = p.header /\ w.data = p.data
        /\ w.silent = p.silent /\ w.cookie = p.cookie /\ w.finished = p.finished
        /\ w.client = p.client /\ w.error = p.error /\ w.odd = p.odd
    BY <1>8, DisabledField
  <2> HIDE DEF w
  <2>3. ASSUME Plain(w) PROVE Sound(w) /\ ~w.error
    <3>1. Plain(r)
      BY <1>8, <2>2, <2>3 DEF Plain
    <3>2. Ended(w)
      BY <1>8, <2>2, <3>1 DEF Ended, Silent, Body, Nothing, HeadOnly
    <3> QED
      BY <1>8, <2>2, <3>1, <3>2, EndedSound
  <2> QED
    BY <2>1, <2>2, <2>3 DEF Fine
<1>10. /\ h \in Request /\ Same(h, r) /\ (Plain(r) => Begun(h) /\ ~h.data /\ ~h.error)
       /\ Plain(r) => (Silent(h) \/ (Nothing(h) /\ h.finished) \/ (HeadOnly(h) /\ ~h.finished))
  <2>1. h = IF r.silent THEN r ELSE WriteClient(r, "head")
    BY DEF WriteHeader
  <2>2. /\ WriteClient(r, "head") \in Request /\ Same(WriteClient(r, "head"), r)
        /\ r.finished => WriteClient(r, "head") = r
        /\ ~r.finished /\ Plain(r) => WriteClient(r, "head").client = Extended(r.client, "head")
    BY <1>4, Written
  <2> HIDE DEF h
  <2>3. h \in Request /\ Same(h, r)
    BY <1>4, <2>1, <2>2 DEF Same
  <2>4. ASSUME Plain(r)
        PROVE  /\ ~h.data /\ ~h.error
               /\ Silent(h) \/ (Nothing(h) /\ h.finished) \/ (HeadOnly(h) /\ ~h.finished)
    <3>1. ~h.data /\ ~h.error
      BY <1>3, <1>5, <2>3, <2>4 DEF Same
    <3>2. CASE r.silent
      BY <1>5, <2>1, <2>4, <3>1, <3>2 DEF Nothing
    <3>3. CASE ~r.silent /\ r.finished
      BY <1>5, <2>1, <2>2, <2>4, <3>1, <3>3 DEF Nothing, Silent
    <3>4. CASE ~r.silent /\ ~r.finished
      <4>1. h.client = Alone
        BY <1>5, <2>1, <2>2, <2>4, <3>4, HeadFacts DEF Nothing, Silent
      <4> QED
        BY <2>3, <3>1, <3>4, <4>1 DEF HeadOnly, Same
    <3> QED
      BY <3>1, <3>2, <3>3, <3>4
  <2> QED
    BY <2>3, <2>4 DEF Begun
<1> HIDE DEF h
<1>11. Fine(Unmodified(r))
  <2>1. Unmodified(r) = HeaderEnd(h)
    BY DEF Unmodified, h
  <2>2. HeaderEnd(h) \in Request /\ HeaderEnd(h).odd = r.odd
    BY <1>4, <1>10, ResponseTyped DEF Same
  <2>3. ASSUME Plain(r) PROVE Sound(HeaderEnd(h)) /\ ~HeaderEnd(h).error
    <3>1. Plain(h)
      BY <1>10, <2>3 DEF Same, Plain
    <3>2. Alike(HeaderEnd(h), h) /\ Ended(HeaderEnd(h))
      BY <1>10, <2>3, <3>1, HeaderEnded
    <3>3. HeaderEnd(h).disabled /\ ~HeaderEnd(h).error
      BY <1>3, <1>10, <2>3, <3>2 DEF Alike, Same
    <3> QED
      BY <2>2, <3>2, <3>3, EndedSound
  <2> QED
    BY <2>1, <2>2, <2>3 DEF Fine, Plain
<1>12. Fine(AsFile(r))
  <2>1. AsFile(r) = WriteWeb(f, "text")
    BY DEF AsFile, h
  <2>2. /\ f \in Request /\ f.header = TRUE /\ f.data = h.data /\ f.disabled = h.disabled
        /\ f.silent = h.silent /\ f.cookie = h.cookie /\ f.finished = h.finished
        /\ f.client = h.client /\ f.error = h.error /\ f.odd = h.odd
    BY <1>10, HeaderField
  <2> HIDE DEF f
  <2>3. ASSUME Plain(f) PROVE Sound(f) /\ ~f.error
    <3>1. Plain(r)
      BY <1>10, <2>2, <2>3 DEF Same, Plain
    <3> QED
      BY <1>10, <2>2, <3>1 DEF Sound, Silent, Nothing, HeadOnly
  <2> QED
    BY <2>1, <2>2, <2>3, PageFine DEF Fine
<1>13. Fine(Missing(r))
  <2>1. ErrorHead(r) \in Request /\ ErrorHead(r).odd = r.odd
    BY <1>4, ResponseTyped
  <2>2. ASSUME Plain(r) PROVE Sound(ErrorHead(r)) /\ ~ErrorHead(r).error
    BY <1>3, <1>4, <1>5, <2>1, <2>2, ErrorHeadEnded, EndedSound
  <2> QED
    BY <2>1, <2>2 DEF Fine, Plain, Missing
<1> QED
  BY <1>9, <1>11, <1>12, <1>13 DEF r, d

\* A step within a handler that leaves the response fine
LEMMA AnswerKeeps ==
  ASSUME OutInv, InHandler, NEW r, Fine(r), Answers(r)
  PROVE  OutInv'
BY DEF OutInv, Fine, Answers, InHandler

\* An error in a handler, or one the program reports, keeps the form.
LEMMA ReportKeeps ==
  ASSUME OutInv, InHandler, ReportError
  PROVE  OutInv'
<1>1. Fine(oReq)
  BY DEF OutInv, Fine
<1>2. oReq' = Reported(Again(oReq)) /\ oPhase' = "shut"
  BY DEF ReportError, Leave
<1> QED
  BY <1>1, <1>2, ReportFine DEF OutInv, InHandler

\* silent-header, set-cookie, delete-cookie and finish-output
LEMMA SettingsKeep ==
  ASSUME OutInv, InHandler, SilentHeader \/ SetCookie \/ DeleteCookie \/ FinishOutput
  PROVE  OutInv'
<1>1. oReq \in Request /\ Fine(oReq)
  BY DEF OutInv, Fine
<1>2. CASE SilentHeader
  <2> DEFINE q == [oReq EXCEPT !.silent = TRUE]
             o == q.odd \cup (IF oReq.header \/ oReq.data THEN {"silence"} ELSE {})
             w == [q EXCEPT !.odd = o]
  <2>1. Answers(w)
    BY <1>2 DEF SilentHeader, Odd
  <2>2. /\ q \in Request /\ q.silent = TRUE /\ q.header = oReq.header /\ q.data = oReq.data
        /\ q.disabled = oReq.disabled /\ q.cookie = oReq.cookie /\ q.finished = oReq.finished
        /\ q.client = oReq.client /\ q.error = oReq.error /\ q.odd = oReq.odd
    BY <1>1, SilentField
  <2> HIDE DEF q
  <2>3. o \in SUBSET Kinds
    BY <2>2 DEF Request, Kinds
  <2>4. o = q.odd \cup (IF oReq.header \/ oReq.data THEN {"silence"} ELSE {})
    OBVIOUS
  <2> HIDE DEF o
  <2>5. /\ w \in Request /\ w.odd = o /\ w.header = q.header /\ w.data = q.data
        /\ w.disabled = q.disabled /\ w.silent = q.silent /\ w.cookie = q.cookie
        /\ w.finished = q.finished /\ w.client = q.client /\ w.error = q.error
    BY <2>2, <2>3, OddField
  <2> HIDE DEF w
  <2>6. ASSUME Plain(w) PROVE Sound(w) /\ ~w.error
    <3>1. Plain(oReq) /\ ~oReq.header /\ ~oReq.data
      BY <2>2, <2>4, <2>5, <2>6 DEF Plain
    <3>2. Sound(oReq) /\ ~oReq.error /\ oReq.error = FALSE
      BY <1>1, <3>1 DEF Fine, Request
    <3>3. oReq.client \in Bodies(<<>>, FALSE)
      BY <3>1, <3>2 DEF Sound, Silent, Nothing, Body, Bodies
    <3> QED
      BY <2>2, <2>5, <3>1, <3>2, <3>3 DEF Sound, Silent
  <2> QED
    BY <2>1, <2>5, <2>6, AnswerKeeps DEF Fine
<1>3. CASE SetCookie
  <2> DEFINE w == [oReq EXCEPT !.cookie = TRUE]
  <2>1. ~oReq.data => Answers(w)
    BY <1>3 DEF SetCookie
  <2>2. /\ w \in Request /\ w.cookie = TRUE /\ w.header = oReq.header /\ w.data = oReq.data
        /\ w.disabled = oReq.disabled /\ w.silent = oReq.silent /\ w.finished = oReq.finished
        /\ w.client = oReq.client /\ w.error = oReq.error /\ w.odd = oReq.odd
    BY <1>1, CookieField
  <2> HIDE DEF w
  <2>3. ~oReq.data => Fine(w)
    BY <1>1, <2>2 DEF Fine, Plain, Sound, Silent, Body, Nothing, HeadOnly
  <2>4. oReq.data => ReportError
    BY <1>3 DEF SetCookie
  <2> QED
    BY <2>1, <2>3, <2>4, AnswerKeeps, ReportKeeps
<1>4. CASE DeleteCookie
  <2> DEFINE q == [oReq EXCEPT !.cookie = TRUE]
             o == q.odd \cup (IF oReq.data THEN {"cookie"} ELSE {})
             w == [q EXCEPT !.odd = o]
  <2>1. Answers(w)
    BY <1>4 DEF DeleteCookie, Odd
  <2>2. /\ q \in Request /\ q.cookie = TRUE /\ q.header = oReq.header /\ q.data = oReq.data
        /\ q.disabled = oReq.disabled /\ q.silent = oReq.silent /\ q.finished = oReq.finished
        /\ q.client = oReq.client /\ q.error = oReq.error /\ q.odd = oReq.odd
    BY <1>1, CookieField
  <2> HIDE DEF q
  <2>3. o \in SUBSET Kinds
    BY <2>2 DEF Request, Kinds
  <2>4. o = q.odd \cup (IF oReq.data THEN {"cookie"} ELSE {})
    OBVIOUS
  <2> HIDE DEF o
  <2>5. /\ w \in Request /\ w.odd = o /\ w.header = q.header /\ w.data = q.data
        /\ w.disabled = q.disabled /\ w.silent = q.silent /\ w.cookie = q.cookie
        /\ w.finished = q.finished /\ w.client = q.client /\ w.error = q.error
    BY <2>2, <2>3, OddField
  <2> HIDE DEF w
  <2>6. ASSUME Plain(w) PROVE Sound(w) /\ ~w.error
    <3>1. Plain(oReq)
      BY <2>2, <2>4, <2>5, <2>6 DEF Plain
    <3>2. Sound(oReq) /\ ~oReq.error
      BY <1>1, <3>1 DEF Fine
    <3>3. oReq.data => "cookie" \in w.odd
      BY <2>4, <2>5
    <3>4. oReq.odd \subseteq w.odd
      BY <2>2, <2>4, <2>5
    <3> QED
      BY <2>2, <2>5, <3>2, <3>3, <3>4 DEF Sound, Silent, Body, Nothing, HeadOnly
  <2> QED
    BY <2>1, <2>5, <2>6, AnswerKeeps DEF Fine
<1>5. CASE FinishOutput
  <2> DEFINE p == [oReq EXCEPT !.finished = TRUE]
             q == [p EXCEPT !.disabled = TRUE]
             o == q.odd \cup (IF oReq.header /\ ~oReq.data THEN {"bare"} ELSE {})
             w == [q EXCEPT !.odd = o]
  <2>1. Answers(w)
    BY <1>5 DEF FinishOutput, Odd
  <2>2. /\ p \in Request /\ p.finished = TRUE /\ p.header = oReq.header /\ p.data = oReq.data
        /\ p.disabled = oReq.disabled /\ p.silent = oReq.silent /\ p.cookie = oReq.cookie
        /\ p.client = oReq.client /\ p.error = oReq.error /\ p.odd = oReq.odd
    BY <1>1, FinishedField
  <2> HIDE DEF p
  <2>3. /\ q \in Request /\ q.disabled = TRUE /\ q.header = p.header /\ q.data = p.data
        /\ q.finished = p.finished /\ q.silent = p.silent /\ q.cookie = p.cookie
        /\ q.client = p.client /\ q.error = p.error /\ q.odd = p.odd
    BY <2>2, DisabledField
  <2> HIDE DEF q
  <2>4. o \in SUBSET Kinds
    BY <2>3 DEF Request, Kinds
  <2>5. o = q.odd \cup (IF oReq.header /\ ~oReq.data THEN {"bare"} ELSE {})
    OBVIOUS
  <2> HIDE DEF o
  <2>6. /\ w \in Request /\ w.odd = o /\ w.header = q.header /\ w.data = q.data
        /\ w.disabled = q.disabled /\ w.silent = q.silent /\ w.cookie = q.cookie
        /\ w.finished = q.finished /\ w.client = q.client /\ w.error = q.error
    BY <2>3, <2>4, OddField
  <2> HIDE DEF w
  <2>7. ASSUME Plain(w) PROVE Sound(w) /\ ~w.error
    <3>1. Plain(oReq)
      BY <2>2, <2>3, <2>5, <2>6, <2>7 DEF Plain
    <3>2. Sound(oReq) /\ ~oReq.error
      BY <1>1, <3>1 DEF Fine
    <3>3. oReq.header /\ ~oReq.data => "bare" \in w.odd
      BY <2>5, <2>6
    <3>4. oReq.odd \subseteq w.odd
      BY <2>2, <2>3, <2>5, <2>6
    <3> QED
      BY <2>2, <2>3, <2>6, <3>2, <3>3, <3>4 DEF Sound, Silent, Body, Nothing, HeadOnly
  <2> QED
    BY <2>1, <2>6, <2>7, AnswerKeeps DEF Fine
<1> QED
  BY <1>2, <1>3, <1>4, <1>5

\* Every statement
LEMMA StatementKeeps ==
  ASSUME OutInv, OutStatement
  PROVE  OutInv'
<1>1. InHandler /\ oReq \in Request /\ Fine(oReq)
  BY DEF OutInv, Fine, OutStatement
<1>2. CASE UNCHANGED <<oReq, oPhase>>
  BY <1>2 DEF OutInv, InHandler
<1>3. CASE PrintOut
  <2>1. CASE InString
    BY <1>2, <1>3, <2>1 DEF PrintOut, PrintToString
  <2>2. CASE ~InString
    BY <1>1, <1>3, <2>2, ReportKeeps, PageFine, AnswerKeeps DEF PrintOut
  <2> QED
    BY <2>1, <2>2
<1>4. CASE WriteString \/ EndWriteString
  BY <1>1, <1>2, <1>4, ReportKeeps DEF WriteString, EndWriteString
<1>5. CASE OutHeader
  <2>1. Fine(OutputHeader(oReq))
    <3>1. OutputHeader(oReq) \in Request /\ OutputHeader(oReq).odd = oReq.odd
      BY <1>1, "text" \in Words, ResponseTyped DEF Words, Texts
    <3>2. ASSUME Plain(oReq) PROVE Sound(OutputHeader(oReq)) /\ ~OutputHeader(oReq).error
      BY <1>1, <3>2, HeaderWritten DEF Fine
    <3> QED
      BY <3>1, <3>2 DEF Fine, Plain
  <2> QED
    BY <1>1, <1>5, <2>1, AnswerKeeps DEF OutHeader
<1>6. CASE SilentHeader \/ SetCookie \/ DeleteCookie \/ FinishOutput
  BY <1>1, <1>6, SettingsKeep
<1>7. CASE SendFile
  BY <1>1, <1>7, SendFileFine, AnswerKeeps, ReportKeeps DEF SendFile
<1>8. CASE ReportErrorStatement
  <2>1. CASE InString
    <3>1. oReq' = oReq /\ oPhase' = "shut"
      BY <1>8, <2>1 DEF ReportErrorStatement, Leave
    <3> QED
      BY <3>1 DEF OutInv, InHandler
  <2>2. CASE ~InString /\ oReq.disabled
    BY <1>1, <1>8, <2>2, ReportKeeps DEF ReportErrorStatement
  <2>3. CASE ~InString /\ ~oReq.disabled
    <3>1. oReq' = HeaderEnd(OutputHeader(oReq)) /\ oPhase' = "shut"
      BY <1>8, <2>3 DEF ReportErrorStatement, Leave
    <3> QED
      BY <1>1, <2>3, <3>1, PageFine DEF OutInv, Fine, InHandler
  <2> QED
    BY <2>1, <2>2, <2>3
<1> QED
  BY <1>1, <1>3, <1>4, <1>5, <1>6, <1>7, <1>8, ReportKeeps DEF OutStatement

\* A request before its first statement
LEMMA NewFine ==
  ASSUME NEW silent \in BOOLEAN
  PROVE  NewRequest(silent) \in Request /\ Fine(NewRequest(silent))
         /\ ~NewRequest(silent).data /\ Plain(NewRequest(silent))
<1> DEFINE r == NewRequest(silent)
<1>1. /\ r \in Request /\ ~r.header /\ ~r.data /\ ~r.disabled /\ ~r.finished /\ r.error = FALSE
      /\ r.silent = silent /\ r.client = <<>> /\ r.odd = {}
  BY DEF NewRequest, Request
<1> HIDE DEF r
<1>2. Sound(r) /\ Plain(r)
  BY <1>1 DEF Sound, Silent, Nothing, Bodies, Plain
<1> QED
  BY <1>1, <1>2 DEF Fine, r

\* The first and the last step of a request, in the main loop of a program,
\* keep the form.
LEMMA RequestKeeps ==
  ASSUME OutInv, AcceptRequest \/ EndRequest
  PROVE  OutInv'
<1>1. CASE AcceptRequest
  <2>1. PICK silent \in BOOLEAN :
       \/ oPhase' = "before" /\ oReq' = NewRequest(silent)
       \/ oPhase' = "shut" /\ oReq' = Reported(ErrorHead(NewRequest(silent)))
       \/ oPhase' = "shut" /\ oReq' = Reported(NewRequest(silent))
    BY <1>1 DEF AcceptRequest
  <2> DEFINE n == NewRequest(silent)
             e == ErrorHead(n)
  <2>2. n \in Request /\ Fine(n) /\ ~n.data /\ Plain(n) /\ Sound(n) /\ ~n.error
    BY NewFine DEF Fine
  <2> HIDE DEF n
  <2>3. e \in Request /\ Plain(e) /\ Sound(e) /\ ~e.error /\ e.header
    BY <2>2, ErrorHeadEnded, EndedSound DEF Plain
  <2> HIDE DEF e
  <2>4. Reported(n) \in Request /\ Sound(Reported(n)) /\ Reported(e) \in Request /\ Sound(Reported(e))
    BY <2>2, <2>3, ErrorReported
  <2> QED
    BY <2>1, <2>2, <2>3, <2>4 DEF OutInv, InHandler, n, e
<1>2. CASE EndRequest
  <2> DEFINE q == Shut(oReq)
             w == [q EXCEPT !.finished = TRUE]
  <2>1. oReq' = w /\ oPhase' = "accept"
    BY <1>2 DEF EndRequest
  <2>2. oReq \in Request
    BY DEF OutInv
  <2>3. q \in Request /\ q.odd = oReq.odd
    BY <2>2, "text" \in Words, ResponseTyped DEF Shut, Words, Texts
  <2>4. ASSUME Plain(oReq)
        PROVE  /\ q.data /\ ~q.header => q.disabled
               /\ \/ Silent(q) \/ Body(q) \/ Nothing(q)
                  \/ HeadOnly(q) /\ q.header /\ "bare" \in q.odd
    <3>1. Sound(oReq)
      BY <2>4 DEF OutInv
    <3>2. CASE oReq.header /\ ~oReq.data
      <4>1. q = HeaderEnd(oReq)
        BY <3>2 DEF Shut
      <4>2. Alike(q, oReq) /\ Ended(q)
        BY <2>2, <2>4, <3>1, <3>2, <4>1, SoundBegun, HeaderEnded
      <4> HIDE DEF q
      <4> QED
        BY <3>2, <4>2 DEF Ended, HeadOnly, Alike
    <3>3. CASE ~(oReq.header /\ ~oReq.data)
      <4>1. q = oReq
        BY <3>3 DEF Shut
      <4> QED
        BY <3>1, <3>3, <4>1 DEF Sound, HeadOnly
    <3> QED
      BY <3>2, <3>3
  <2> HIDE DEF q
  <2>5. /\ w \in Request /\ w.finished = TRUE /\ w.header = q.header /\ w.data = q.data
        /\ w.disabled = q.disabled /\ w.silent = q.silent /\ w.cookie = q.cookie
        /\ w.client = q.client /\ w.error = q.error /\ w.odd = q.odd
    BY <2>3, FinishedField
  <2> HIDE DEF w
  <2>6. ASSUME Plain(w) PROVE Sound(w)
    <3>1. Plain(oReq)
      BY <2>3, <2>5, <2>6 DEF Plain
    <3> QED
      BY <2>4, <2>5, <3>1 DEF Sound, Silent, Body, Nothing, HeadOnly
  <2> QED
    BY <2>1, <2>5, <2>6 DEF OutInv, InHandler
<1> QED
  BY <1>1, <1>2

\* Before the first request there is no response.
LEMMA FirstFine == OutInit => OutInv
<1> SUFFICES ASSUME OutInit PROVE OutInv
  OBVIOUS
<1> DEFINE n == NewRequest(FALSE)
           w == [n EXCEPT !.finished = TRUE]
<1>1. oReq = w /\ oPhase = "accept"
  BY DEF OutInit
<1>2. n \in Request /\ Fine(n) /\ ~n.data /\ Plain(n) /\ Sound(n) /\ ~n.header /\ n.client = <<>> /\ ~n.silent /\ ~n.error
  BY FALSE \in BOOLEAN, NewFine DEF Fine, NewRequest
<1> HIDE DEF n
<1>5. /\ w \in Request /\ w.finished = TRUE /\ w.header = n.header /\ w.data = n.data
      /\ w.disabled = n.disabled /\ w.silent = n.silent /\ w.cookie = n.cookie
      /\ w.client = n.client /\ w.error = n.error /\ w.odd = n.odd
  BY <1>2, FinishedField
<1> HIDE DEF w
<1> QED
  BY <1>1, <1>2, <1>5 DEF OutInv, InHandler, Sound, Nothing

\* Every step keeps the form of the response.
LEMMA StepKeeps ==
  ASSUME OutInv, [OutNext]_outVars
  PROVE  OutInv'
<1>1. CASE UNCHANGED outVars
  BY <1>1 DEF outVars, OutInv, InHandler
<1>2. CASE ExitHandler \/ ReturnHandler
  BY <1>2 DEF ExitHandler, ReturnHandler, OutInv, InHandler
<1> QED
  BY <1>1, <1>2, StatementKeeps, RequestKeeps DEF OutNext

-----------------------------------------------------------------------------
(* The form of the streams.                                                *)

\* One more word at the end of a stream
LEMMA OneMore ==
  ASSUME NEW g \in Seq(Words), NEW x \in Words, NEW c, c = Append(g, x)
  PROVE  /\ c \in Seq(Words) /\ Len(c) = Len(g) + 1 /\ c[Len(g) + 1] = x
         /\ \A i \in 1 .. Len(g) : c[i] = g[i]
OBVIOUS

\* What stands where in the heads.
LEMMA Heads ==
  /\ <<>> \in Seq(Words) /\ Len(<<>>) = 0
  /\ Alone \in Seq(Words) /\ Len(Alone) = 1 /\ Alone[1] = "head"
  /\ Page \in Seq(Words) /\ Len(Page) = 2 /\ Page[1] = "head" /\ Page[2] = "blank"
  /\ CookiePage \in Seq(Words) /\ Len(CookiePage) = 3
  /\ CookiePage[1] = "head" /\ CookiePage[2] = "cookie" /\ CookiePage[3] = "blank"
<1> DEFINE c == Append(Alone, "cookie")
<1>1. "head" \in Words /\ "cookie" \in Words /\ "blank" \in Words
  BY DEF Words
<1>2. Alone \in Seq(Words) /\ Len(Alone) = 1 /\ Alone[1] = "head"
  BY <1>1 DEF Alone
<1>3. Page = Append(Alone, "blank") /\ c = Append(Alone, "cookie") /\ CookiePage = Append(c, "blank")
  BY DEF Page, CookiePage
<1> HIDE DEF c
<1>4. Page \in Seq(Words) /\ Len(Page) = 2 /\ Page[1] = "head" /\ Page[2] = "blank"
  <2>1. /\ Page \in Seq(Words) /\ Len(Page) = Len(Alone) + 1 /\ Page[Len(Alone) + 1] = "blank"
        /\ \A i \in 1 .. Len(Alone) : Page[i] = Alone[i]
    BY <1>1, <1>2, <1>3, OneMore
  <2> QED
    BY <1>2, <2>1
<1>5. c \in Seq(Words) /\ Len(c) = 2 /\ c[1] = "head" /\ c[2] = "cookie"
  <2>1. /\ c \in Seq(Words) /\ Len(c) = Len(Alone) + 1 /\ c[Len(Alone) + 1] = "cookie"
        /\ \A i \in 1 .. Len(Alone) : c[i] = Alone[i]
    BY <1>1, <1>2, <1>3, OneMore
  <2> QED
    BY <1>2, <2>1
<1>6. /\ CookiePage \in Seq(Words) /\ Len(CookiePage) = 3
      /\ CookiePage[1] = "head" /\ CookiePage[2] = "cookie" /\ CookiePage[3] = "blank"
  <2>1. /\ CookiePage \in Seq(Words) /\ Len(CookiePage) = Len(c) + 1
        /\ CookiePage[Len(c) + 1] = "blank" /\ \A i \in 1 .. Len(c) : CookiePage[i] = c[i]
    BY <1>1, <1>3, <1>5, OneMore
  <2> QED
    BY <1>5, <2>1
<1> QED
  BY <1>2, <1>4, <1>6

\* Behind a head h come texts alone, and an error is the last of them.
LEMMA FormOfBody ==
  ASSUME NEW h \in Seq(Words), \A i \in 1 .. Len(h) : h[i] \notin Texts,
         NEW e \in BOOLEAN, NEW c \in Bodies(h, e)
  PROVE  /\ c \in Seq(Words) /\ Len(c) >= Len(h)
         /\ \A i \in 1 .. Len(h) : c[i] = h[i]
         /\ \A i \in Len(h) + 1 .. Len(c) : c[i] \in Texts
         /\ e => /\ Len(c) > Len(h) /\ c[Len(c)] = "error"
                 /\ \A i \in 1 .. Len(c) : c[i] = "error" => i = Len(c)
<1>1. {"text", "error"} \subseteq Words /\ Texts = {"text", "error"}
  BY DEF Words, Texts
<1> DEFINE t == Append(h, "text")
<1>2. t \in Seq(Words) /\ Len(t) = Len(h) + 1 /\ t[Len(h) + 1] = "text"
      /\ \A i \in 1 .. Len(h) : t[i] = h[i]
  BY <1>1
<1>3. ASSUME NEW g \in Seq(Words), c = Append(g, "error")
      PROVE  c \in Seq(Words) /\ Len(c) = Len(g) + 1 /\ c[Len(g) + 1] = "error"
             /\ \A i \in 1 .. Len(g) : c[i] = g[i]
  BY <1>1, <1>3
<1>4. CASE e
  <2>1. c = Append(h, "error") \/ c = Append(t, "error")
    BY <1>4 DEF Bodies
  <2> HIDE DEF t
  <2>2. CASE c = Append(h, "error")
    <3>1. c \in Seq(Words) /\ Len(c) = Len(h) + 1 /\ c[Len(h) + 1] = "error"
          /\ \A i \in 1 .. Len(h) : c[i] = h[i]
      BY <1>3, <2>2
    <3> QED
      BY <1>1, <3>1
  <2>3. CASE c = Append(t, "error")
    <3>1. c \in Seq(Words) /\ Len(c) = Len(h) + 2 /\ c[Len(h) + 2] = "error"
          /\ (\A i \in 1 .. Len(h) : c[i] = h[i]) /\ c[Len(h) + 1] = "text"
      BY <1>2, <1>3, <2>3
    <3> QED
      BY <1>1, <3>1
  <2> QED
    BY <2>1, <2>2, <2>3
<1>5. CASE ~e
  <2>1. c = h \/ c = t
    BY <1>5 DEF Bodies
  <2> HIDE DEF t
  <2> QED
    BY <1>1, <1>2, <1>5, <2>1
<1> QED
  BY <1>4, <1>5

\* A sound stream has the form ResponseWellFormed asks for.
LEMMA SoundWellFormed == OutInv => ResponseWellFormed
<1> SUFFICES ASSUME OutInv, Plain(oReq) PROVE ResponseWellFormed
  BY DEF ResponseWellFormed, Plain
<1> DEFINE client == oReq.client
           blank == IF Sent("cookie") THEN 3 ELSE 2
           form(i) == CASE i = 1 -> {"head"}
                        [] i = 2 /\ blank = 3 -> {"cookie"}
                        [] i = blank -> {"blank"}
                        [] OTHER -> Texts
<1>1. oReq \in Request /\ Sound(oReq) /\ (oPhase = "accept" => oReq.finished)
  BY DEF OutInv
<1>2. client \in Seq(Words) /\ oReq.error \in BOOLEAN /\ DOMAIN client = 1 .. Len(client)
      /\ Len(client) \in Nat
  BY <1>1 DEF Request
<1>3. Texts = {"text", "error"}
  BY DEF Texts
<1>4. SUFFICES /\ \A i \in DOMAIN client : client[i] \in IF oReq.silent THEN Texts ELSE form(i)
               /\ ~oReq.silent /\ oReq.cookie /\ Sent("blank") =>
                    Sent("cookie") \/ "cookie" \in oReq.odd
               /\ oPhase = "accept" /\ ~oReq.silent /\ client # <<>> =>
                    Sent("blank") \/ "bare" \in oReq.odd
               /\ oReq.error => SentAt("error") = Len(client)
  BY DEF ResponseWellFormed
<1>5. ASSUME Len(client) > 0, client[Len(client)] = "error",
             \A i \in 1 .. Len(client) : client[i] = "error" => i = Len(client)
      PROVE  SentAt("error") = Len(client)
  <2>1. Len(client) \in DOMAIN client /\ client[Len(client)] = "error"
    BY <1>2, <1>5
  <2>2. SentAt("error") \in DOMAIN client /\ client[SentAt("error")] = "error"
    BY <2>1 DEF SentAt
  <2> QED
    BY <1>2, <1>5, <2>2
<1>6. CASE Silent(oReq)
  <2>1. /\ \A i \in 1 .. Len(client) : client[i] \in Texts
        /\ oReq.error => /\ Len(client) > 0 /\ client[Len(client)] = "error"
                         /\ \A i \in 1 .. Len(client) : client[i] = "error" => i = Len(client)
    <3>1. client \in Bodies(<<>>, oReq.error)
      BY <1>6 DEF Silent
    <3> DEFINE h == <<>>
    <3>2. h \in Seq(Words) /\ Len(h) = 0
      BY Heads
    <3> HIDE DEF client, h
    <3>3. \A i \in 1 .. Len(h) : h[i] \notin Texts
      BY <3>2
    <3>4. /\ \A i \in Len(h) + 1 .. Len(client) : client[i] \in Texts
          /\ oReq.error => /\ Len(client) > Len(h) /\ client[Len(client)] = "error"
                           /\ \A i \in 1 .. Len(client) : client[i] = "error" => i = Len(client)
      BY <1>2, <3>1, <3>2, <3>3, FormOfBody DEF h
    <3> QED
      BY <3>2, <3>4
  <2> QED
    BY <1>2, <1>5, <1>6, <2>1 DEF Silent
<1>7. CASE Nothing(oReq)
  <2>1. client = <<>> /\ DOMAIN client = {} /\ ~oReq.error
    BY <1>7 DEF Nothing
  <2> QED
    BY <2>1 DEF Sent
<1>8. CASE HeadOnly(oReq)
  <2>1. Len(client) = 1 /\ client[1] = "head" /\ ~oReq.error /\ ~oReq.silent
        /\ (oReq.finished => "bare" \in oReq.odd)
    BY <1>8, Heads DEF HeadOnly
  <2> HIDE DEF client
  <2>2. \A i \in DOMAIN client : i = 1 /\ client[i] = "head"
    BY <1>2, <2>1
  <2>3. ~Sent("blank")
    BY <2>2 DEF Sent, client
  <2> QED
    BY <1>1, <2>1, <2>2, <2>3
<1>9. CASE Body(oReq)
  <2>1. \/ client \in Bodies(Page, oReq.error) /\ (oReq.cookie => "cookie" \in oReq.odd)
        \/ client \in Bodies(CookiePage, oReq.error)
    BY <1>9 DEF Body
  <2>2. ~oReq.silent
    BY <1>9 DEF Body
  <2>3. CASE client \in Bodies(Page, oReq.error) /\ (oReq.cookie => "cookie" \in oReq.odd)
    <3>1. \A i \in 1 .. Len(Page) : Page[i] \notin Texts
      BY <1>3, Heads
    <3> HIDE DEF client
    <3>2. /\ Len(client) >= 2 /\ client[1] = "head" /\ client[2] = "blank"
          /\ \A i \in 3 .. Len(client) : client[i] \in Texts
          /\ oReq.error => /\ Len(client) > 2 /\ client[Len(client)] = "error"
                           /\ \A i \in 1 .. Len(client) : client[i] = "error" => i = Len(client)
      <4>1. /\ Len(client) >= Len(Page)
            /\ \A i \in 1 .. Len(Page) : client[i] = Page[i]
            /\ \A i \in Len(Page) + 1 .. Len(client) : client[i] \in Texts
            /\ oReq.error => /\ Len(client) > Len(Page) /\ client[Len(client)] = "error"
                             /\ \A i \in 1 .. Len(client) : client[i] = "error" => i = Len(client)
        <5> DEFINE e == oReq.error
                   h == Page
        <5>1. h \in Seq(Words) /\ client \in Bodies(h, e) /\ e \in BOOLEAN
          BY <1>2, <2>3, Heads
        <5>2. \A i \in 1 .. Len(h) : h[i] \notin Texts
          BY <3>1
        <5> HIDE DEF e, h
        <5>3. /\ Len(client) >= Len(h)
              /\ \A i \in 1 .. Len(h) : client[i] = h[i]
              /\ \A i \in Len(h) + 1 .. Len(client) : client[i] \in Texts
              /\ e => /\ Len(client) > Len(h) /\ client[Len(client)] = "error"
                      /\ \A i \in 1 .. Len(client) : client[i] = "error" => i = Len(client)
          BY <5>1, <5>2, FormOfBody
        <5> QED
          BY <5>3 DEF e, h
      <4> DEFINE h == Page
      <4>2. Len(h) = 2 /\ h[1] = "head" /\ h[2] = "blank"
        BY Heads
      <4>3. /\ Len(client) >= Len(h)
            /\ \A i \in 1 .. Len(h) : client[i] = h[i]
            /\ \A i \in Len(h) + 1 .. Len(client) : client[i] \in Texts
            /\ oReq.error => Len(client) > Len(h)
        BY <4>1
      <4> HIDE DEF h
      <4>4. /\ Len(client) >= 2 /\ client[1] = "head" /\ client[2] = "blank"
            /\ \A i \in 3 .. Len(client) : client[i] \in Texts
            /\ oReq.error => Len(client) > 2
        BY <1>2, <4>2, <4>3
      <4> QED
        BY <4>1, <4>4
    <3>3. ~ \E i \in DOMAIN client : client[i] = "cookie"
      <4>1. \A i \in DOMAIN client : i = 1 \/ i = 2 \/ i \in 3 .. Len(client)
        BY <1>2
      <4> QED
        BY <1>3, <3>2, <4>1
    <3>4. ~Sent("cookie") /\ Sent("blank")
      BY <1>2, <3>2, <3>3 DEF Sent, client
    <3>5. \A i \in DOMAIN client : client[i] \in form(i)
      <4>1. \A i \in DOMAIN client : i = 1 \/ i = 2 \/ i \in 3 .. Len(client)
        BY <1>2
      <4>2. blank = 2
        BY <3>4
      <4> HIDE DEF blank
      <4>3. form(1) = {"head"} /\ form(2) = {"blank"}
        BY <4>2
      <4>4. ASSUME NEW i \in 3 .. Len(client) PROVE form(i) = Texts
        BY <1>2, <4>2
      <4> SUFFICES ASSUME NEW i \in DOMAIN client PROVE client[i] \in form(i)
        OBVIOUS
      <4> HIDE DEF form
      <4>5. CASE i = 1
        BY <3>2, <4>3, <4>5
      <4>6. CASE i = 2
        BY <3>2, <4>3, <4>6
      <4>7. CASE i \in 3 .. Len(client)
        BY <3>2, <4>4, <4>7
      <4> QED
        BY <4>1, <4>5, <4>6, <4>7
    <3>6. ASSUME oReq.error PROVE SentAt("error") = Len(client)
      <4>1. /\ Len(client) > 2 /\ client[Len(client)] = "error"
            /\ \A i \in 1 .. Len(client) : client[i] = "error" => i = Len(client)
        BY <3>2, <3>6, Zenon
      <4>2. Len(client) \in Nat /\ Len(client) > 2
        BY <1>2, <4>1, Zenon
      <4>3. Len(client) > 0
        BY <4>2
      <4> QED
        BY <1>5, <4>1, <4>3, Zenon
    <3> QED
      BY <2>2, <2>3, <3>4, <3>5, <3>6
  <2>4. CASE client \in Bodies(CookiePage, oReq.error)
    <3>1. \A i \in 1 .. Len(CookiePage) : CookiePage[i] \notin Texts
      BY <1>3, Heads
    <3> HIDE DEF client
    <3>2. /\ Len(client) >= 3 /\ client[1] = "head" /\ client[2] = "cookie" /\ client[3] = "blank"
          /\ \A i \in 4 .. Len(client) : client[i] \in Texts
          /\ oReq.error => /\ Len(client) > 3 /\ client[Len(client)] = "error"
                           /\ \A i \in 1 .. Len(client) : client[i] = "error" => i = Len(client)
      <4>1. /\ Len(client) >= Len(CookiePage)
            /\ \A i \in 1 .. Len(CookiePage) : client[i] = CookiePage[i]
            /\ \A i \in Len(CookiePage) + 1 .. Len(client) : client[i] \in Texts
            /\ oReq.error => /\ Len(client) > Len(CookiePage) /\ client[Len(client)] = "error"
                             /\ \A i \in 1 .. Len(client) : client[i] = "error" => i = Len(client)
        <5> DEFINE e == oReq.error
                   h == CookiePage
        <5>1. h \in Seq(Words) /\ client \in Bodies(h, e) /\ e \in BOOLEAN
          BY <1>2, <2>4, Heads
        <5>2. \A i \in 1 .. Len(h) : h[i] \notin Texts
          BY <3>1
        <5> HIDE DEF e, h
        <5>3. /\ Len(client) >= Len(h)
              /\ \A i \in 1 .. Len(h) : client[i] = h[i]
              /\ \A i \in Len(h) + 1 .. Len(client) : client[i] \in Texts
              /\ e => /\ Len(client) > Len(h) /\ client[Len(client)] = "error"
                      /\ \A i \in 1 .. Len(client) : client[i] = "error" => i = Len(client)
          BY <5>1, <5>2, FormOfBody
        <5> QED
          BY <5>3 DEF e, h
      <4> DEFINE h == CookiePage
      <4>2. Len(h) = 3 /\ h[1] = "head" /\ h[2] = "cookie" /\ h[3] = "blank"
        BY Heads
      <4>3. /\ Len(client) >= Len(h)
            /\ \A i \in 1 .. Len(h) : client[i] = h[i]
            /\ \A i \in Len(h) + 1 .. Len(client) : client[i] \in Texts
            /\ oReq.error => Len(client) > Len(h)
        BY <4>1
      <4> HIDE DEF h
      <4>4. /\ Len(client) >= 3 /\ client[1] = "head" /\ client[2] = "cookie" /\ client[3] = "blank"
            /\ \A i \in 4 .. Len(client) : client[i] \in Texts
            /\ oReq.error => Len(client) > 3
        BY <1>2, <4>2, <4>3
      <4> QED
        BY <4>1, <4>4
    <3>4. Sent("cookie") /\ Sent("blank")
      BY <1>2, <3>2 DEF Sent, client
    <3>5. \A i \in DOMAIN client : client[i] \in form(i)
      <4>1. \A i \in DOMAIN client : i = 1 \/ i = 2 \/ i = 3 \/ i \in 4 .. Len(client)
        BY <1>2
      <4>2. blank = 3
        BY <3>4
      <4> HIDE DEF blank
      <4>3. form(1) = {"head"} /\ form(2) = {"cookie"} /\ form(3) = {"blank"}
        BY <4>2
      <4>4. ASSUME NEW i \in 4 .. Len(client) PROVE form(i) = Texts
        BY <1>2, <4>2
      <4> SUFFICES ASSUME NEW i \in DOMAIN client PROVE client[i] \in form(i)
        OBVIOUS
      <4> HIDE DEF form
      <4>5. CASE i = 1
        BY <3>2, <4>3, <4>5
      <4>6. CASE i = 2
        BY <3>2, <4>3, <4>6
      <4>7. CASE i = 3
        BY <3>2, <4>3, <4>7
      <4>8. CASE i \in 4 .. Len(client)
        BY <3>2, <4>4, <4>8
      <4> QED
        BY <4>1, <4>5, <4>6, <4>7, <4>8
    <3>6. ASSUME oReq.error PROVE SentAt("error") = Len(client)
      <4>1. /\ Len(client) > 3 /\ client[Len(client)] = "error"
            /\ \A i \in 1 .. Len(client) : client[i] = "error" => i = Len(client)
        BY <3>2, <3>6, Zenon
      <4>2. Len(client) \in Nat /\ Len(client) > 3
        BY <1>2, <4>1, Zenon
      <4>3. Len(client) > 0
        BY <4>2
      <4> QED
        BY <1>5, <4>1, <4>3, Zenon
    <3> QED
      BY <2>2, <3>4, <3>5, <3>6
  <2> QED
    BY <2>1, <2>3, <2>4
<1> QED
  BY <1>1, <1>6, <1>7, <1>8, <1>9 DEF Sound

\* Whatever statements a program executes and however its request ends, the
\* client gets one head, the cookies, one blank line and only then texts, all
\* of it or nothing, and the message of an error ends it.
THEOREM ResponsesFormed == OutSpec => []ResponseWellFormed
<1> QED
  BY FirstFine, StepKeeps, SoundWellFormed, PTL DEF OutSpec

=============================================================================
