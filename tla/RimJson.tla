------------------------------ MODULE RimJson -------------------------------
(***************************************************************************)
(* json-doc: rim_json_new() of src/json.c, which reads a JSON text by      *)
(* calling itself for each value, and names each value that is a leaf by   *)
(* the names and indexes on the way to it. All calls share list[], with    *)
(* the name and the index at each level, list_c, the level, and nulled:    *)
(* the byte behind a number, true, false or null is overwritten to end it, *)
(* and kept there for the next character read, of whichever text.          *)
(*                                                                         *)
(* A text is given token by token. The contents and the conversion of      *)
(* strings and numbers are left out.                                       *)
(***************************************************************************)
EXTENDS Integers, Sequences

CONSTANTS
  JsonString,    \* strings
  JsonNoName,
  JsonNested,    \* RIM_JSON_MAX_NESTED
  JsonMaxIndex   \* bound on the indexes of arrays

Marks == {"{", "}", "[", "]", ":", ","}

ASSUME JsonAssumption ==
  /\ JsonNoName \notin JsonString
  /\ JsonString \cap (Marks \cup {"other", "white", "none", "behind"}) = {}
  /\ JsonNested \in Nat /\ JsonNested >= 3 /\ JsonMaxIndex \in Nat

VARIABLES
  jCalls,   \* the calls of rim_json_new() in progress, with their flags
  jList,    \* list[]
  jLevel,   \* list_c
  jLeaf,    \* the name of the node the last token made, or JsonNoName
  jNulled,  \* nulled: "none", "behind" for what follows the last token, or what
            \* another text left there
  jState,   \* "reading", "done" with the value, "accepted" or "failed"
  jText     \* a history: what the text so far says, see Reading

jsonVars == <<jCalls, jList, jLevel, jLeaf, jNulled, jState, jText>>

\* "other" is a number, true, false or null.
Leaves == {"other"} \cup JsonString
Token == Marks \cup Leaves \cup {"white"}
Level == 0 .. JsonNested - 1

-----------------------------------------------------------------------------
(* What a text says: the objects and arrays that are open, the names and   *)
(* indexes on the way to the next value, and what may follow. Left out are *)
(* texts the reader is known to take differently: arrays that are not the  *)
(* value of a name, what is empty, white space behind a text that is but a *)
(* number, true, false or null. "leaf" names the leaf just read.           *)

Text(open, path, awaits) ==
  [open |-> open, path |-> path, awaits |-> awaits, leaf |-> JsonNoName]
Outside == Text(<<>>, <<>>, "anything")

Up(s) == SubSeq(s, 1, Len(s) - 1)
IsIn(text, kind) == text.open # <<>> /\ text.open[Len(text.open)] = kind

\* The path with another name or index at its end
Onto(text, field, x) == [text.path EXCEPT ![Len(text.path)][field] = x]
Index(text) == text.path[Len(text.path)].index

Deeper(text, kind, path, awaits) ==
  IF Len(text.open) = JsonNested - 2 THEN Outside
  ELSE Text(Append(text.open, kind), path, awaits)

\* "nothing" may have white space behind it, "end" may not.
Ended(open, path, token) ==
  Text(open, path, IF open # <<>> THEN "separator" ELSE IF token = "other" THEN "end" ELSE "nothing")
Complete(text) == text.awaits \in {"nothing", "end"}

Reading(text, token) ==
  CASE text.awaits = "value" /\ token = "{" ->
         Deeper(text, "object", Append(text.path, [name |-> JsonNoName, index |-> -1]), "name")
    [] text.awaits = "value" /\ token = "[" /\ IsIn(text, "object") ->
         Deeper(text, "array", Onto(text, "index", 0), "value")
    [] text.awaits = "value" /\ token \in Leaves ->
         [Ended(text.open, text.path, token) EXCEPT !.leaf = text.path]
    [] text.awaits = "name" /\ token \in JsonString ->
         Text(text.open, Onto(text, "name", token), "colon")
    [] text.awaits = "colon" /\ token = ":" -> Text(text.open, text.path, "value")
    [] text.awaits = "separator" /\ token = "," /\ IsIn(text, "object") ->
         Text(text.open, text.path, "name")
    [] text.awaits = "separator" /\ token = "," /\ IsIn(text, "array") ->
         Text(text.open, Onto(text, "index", Index(text) + 1), "value")
    [] text.awaits = "separator" /\ token = "}" /\ IsIn(text, "object") ->
         Ended(Up(text.open), Up(text.path), token)
    [] text.awaits = "separator" /\ token = "]" /\ IsIn(text, "array") ->
         Ended(Up(text.open), Onto(text, "index", -1), token)
    [] text.awaits # "end" /\ token = "white" -> Text(text.open, text.path, text.awaits)
    [] OTHER -> Outside

-----------------------------------------------------------------------------
(* Calls. A call expects some of "name", "colon", and "array" or "object", *)
(* the next or the end of one.                                             *)

NewCall == [expects |-> {}, arr |-> FALSE, obj |-> FALSE]
Current == jCalls[Len(jCalls)]
Expects(what) == Current.expects \cap what # {}
WithCurrent(call) == [jCalls EXCEPT ![Len(jCalls)] = call]

Fail ==
  /\ jState' = "failed" /\ jLeaf' = JsonNoName
  /\ UNCHANGED <<jCalls, jList, jLevel>>

\* The call goes on with the next token.
GoOn(call, list) ==
  /\ jCalls' = WithCurrent(call) /\ jList' = list /\ jLeaf' = JsonNoName
  /\ UNCHANGED <<jLevel, jState>>

\* The next token belongs to a call made by this one, which expects "then" of
\* what follows that.
CallFor(call, then, list, level) ==
  IF Len(jCalls) + 1 >= JsonNested \/ level + 1 >= JsonNested - 1 THEN Fail
  ELSE /\ jCalls' = Append(WithCurrent([call EXCEPT !.expects = then]), NewCall)
       /\ jList' = list /\ jLevel' = level + 1 /\ jLeaf' = JsonNoName
       /\ UNCHANGED jState

\* The call returns.
CallReturns(list, level, leaf) ==
  /\ jCalls' = Up(jCalls)
  /\ jState' = IF Len(jCalls) = 1 THEN "done" ELSE "reading"
  /\ jList' = list /\ jLevel' = level /\ jLeaf' = leaf

\* list[level].index++. Before list[] is memory that no name shows.
NextIndex(level) ==
  IF level = -1 THEN jList ELSE [jList EXCEPT ![level].index = @ + 1]

\* Mutant: the index is left at the level.
NoIndexKept(level) == jList
NoIndex(level) == IF level = -1 THEN jList ELSE [jList EXCEPT ![level].index = -1]

\* rim_json_fullname()
FullName == [i \in 1 .. jLevel |-> jList[i - 1]]

BeginObject ==
  IF Current.expects # {} THEN Fail
  ELSE GoOn([Current EXCEPT !.expects = {"name"}, !.obj = TRUE], jList)

EndObject ==
  IF Expects({"colon", "array", "name"}) THEN Fail ELSE CallReturns(jList, jLevel - 1, JsonNoName)

\* The index is that of the name, one level up.
BeginArray ==
  IF Current.expects # {} THEN Fail
  ELSE CallFor([Current EXCEPT !.arr = TRUE], {"array"}, NextIndex(jLevel - 1), jLevel - 1)

EndArray ==
  IF Expects({"colon", "object", "name"}) THEN Fail
  ELSE CallReturns(NoIndex(jLevel), jLevel, JsonNoName)

Colon ==
  IF Expects({"array", "object", "name"}) THEN Fail
  ELSE CallFor(Current, {"object"}, jList, jLevel)

Comma ==
  CASE Expects({"colon", "name"}) -> Fail
    [] ~Expects({"colon", "name"}) /\ Current.obj ->
         GoOn([Current EXCEPT !.expects = {"name"}], jList)
    [] ~Expects({"colon", "name"}) /\ ~Current.obj /\ Current.arr ->
         CallFor(Current, {"array"}, NextIndex(jLevel), jLevel)
    [] OTHER -> Fail

Name(string) ==
  GoOn([Current EXCEPT !.expects = {"colon"}], [jList EXCEPT ![jLevel].name = string])

AddNode == CallReturns(jList, jLevel - 1, FullName)

String(string) ==
  CASE Expects({"colon", "array", "object"}) -> Fail
    [] Current.expects = {"name"} -> Name(string)
    [] OTHER -> AddNode

\* A number, true, false, null
Other == IF Current.expects # {} THEN Fail ELSE AddNode

Parse(token) ==
  CASE token = "{" -> BeginObject [] token = "}" -> EndObject
    [] token = "[" -> BeginArray  [] token = "]" -> EndArray
    [] token = ":" -> Colon       [] token = "," -> Comma
    [] token = "other" -> Other   [] token = "white" -> GoOn(Current, jList)
    [] OTHER -> String(token)

\* Reading a token ends with nothing in nulled, or with what is behind it.
NullBehind(token) ==
  jNulled' = IF token = "other" /\ jState' # "failed" THEN "behind" ELSE "none"

\* Behind the value white space is skipped. What was nulled is not seen to be,
\* and stays for the next text.
BehindValue(token) ==
  /\ IF token = "white" /\ jNulled = "none"
     THEN jLeaf' = JsonNoName /\ UNCHANGED <<jCalls, jList, jLevel, jState>>
     ELSE Fail
  /\ jNulled' = IF jNulled = "behind" THEN token ELSE jNulled

ReadToken(token) ==
  /\ \A i \in DOMAIN jText.path : jText.path[i].index <= JsonMaxIndex
  /\ \A i \in Level : jList[i].index <= JsonMaxIndex
  /\ jText' = Reading(jText, token)
  /\ \/ jState = "reading" /\ jNulled \notin Token /\ Parse(token) /\ NullBehind(token)
     \/ jState = "done" /\ BehindValue(token)

\* What another text left is taken for the first character of this one. As the
\* first of a string, a number or a word it does not fit what is there, or does.
ReadKept ==
  /\ jState = "reading" /\ jNulled \in Token
  /\ Parse(jNulled) \/ (jNulled \in Leaves /\ Fail)
  /\ NullBehind(jNulled)
  /\ UNCHANGED jText

\* The text ends: all calls return, and no error is found. There may be more
\* behind the length that json-doc was given.
EndOfText ==
  /\ jState \in {"reading", "done"}
  /\ jState' = "accepted" /\ jCalls' = <<>> /\ jLeaf' = JsonNoName
  /\ jNulled' \in IF jNulled = "behind" THEN Token \cup {"none"} ELSE {jNulled}
  /\ jText' = IF Complete(jText) THEN Text(jText.open, jText.path, jText.awaits) ELSE Outside
  /\ UNCHANGED <<jList, jLevel>>

NewLevels == [i \in Level |-> [name |-> JsonNoName, index |-> -1]]

NewText == Text(<<>>, <<>>, "value")

\* json-doc of the next text: nulled is not reset. Nothing is said of a text whose
\* first character is taken for another.
JsonDoc ==
  /\ jState \in {"accepted", "failed"}
  /\ jCalls' = <<NewCall>> /\ jList' = NewLevels /\ jLevel' = 0
  /\ jLeaf' = JsonNoName /\ jState' = "reading"
  /\ jText' = IF jNulled = "none" THEN NewText ELSE Outside
  /\ UNCHANGED jNulled

JsonInit ==
  /\ jCalls = <<NewCall>> /\ jList = NewLevels /\ jLevel = 0
  /\ jLeaf = JsonNoName /\ jState = "reading" /\ jText = NewText /\ jNulled = "none"

JsonNext == (\E token \in Token : ReadToken(token)) \/ ReadKept \/ EndOfText \/ JsonDoc

JsonSpec == JsonInit /\ [][JsonNext]_jsonVars

-----------------------------------------------------------------------------
\* In a text that finds nulled empty, whatever was read before and is left in
\* list[] by values deeper down: each leaf gets the names and indexes the text
\* gives it, nothing else gets a node, the text is not refused, and the value
\* ends where it ends in the text.
JsonReadsText ==
  jText.awaits # "anything" =>
    /\ jState # "failed"
    /\ jLeaf = jText.leaf
    /\ Complete(jText) <=> jState \in {"done", "accepted"}

=============================================================================
