------------------------------- MODULE RimMsg --------------------------------
(***************************************************************************)
(* Messages of src/msg.c: key/value pairs written into a growing text,     *)
(* which is read in place. Reading a pair overwrites its separator and its *)
(* end in the text, so that nobody can parse it there again.               *)
(*                                                                         *)
(* A program writes one message, takes its text with get-message, and      *)
(* makes messages of that text (new-message with from) to read it. A pair  *)
(* is an opaque item with a length, that of its key and value. Text that   *)
(* did not come from write-message is left out.                            *)
(***************************************************************************)
EXTENDS Integers, Sequences, FiniteSets

CONSTANTS
  MsgItem,      \* pairs
  MsgComments,  \* those with the key "comment"
  MsgLen,       \* length of key and value
  MsgFixed,     \* what a pair takes beyond them: separator, length, newline
  MsgBuffLen,   \* RIM_MSG_BUFF_LEN
  MsgAddLen,    \* RIM_MSG_ADD_LEN
  MsgMaxInc,    \* 4096: up to it the increment doubles
  MsgReader,    \* messages made of a text
  MaxItems      \* bound on the pairs of a message

ASSUME MsgAssumption ==
  /\ MsgComments \subseteq MsgItem
  /\ MsgLen \in [MsgItem -> Nat]
  /\ MsgFixed \in Nat /\ MsgBuffLen \in Nat /\ MsgMaxInc \in Nat
  /\ MsgAddLen \in Nat /\ MsgAddLen > MsgFixed
  /\ MaxItems \in Nat

VARIABLES
  mMode,             \* mode of the message that is written
  mItems,            \* the pairs in its text
  mPos, mSplit,      \* how many of them it has passed; how many have been read
  mLen, mTot, mInc,  \* len, tot, addinc
  gText, gSplit,     \* the text taken last, and how many of its pairs were read
  gTaken,            \* how many of them were read when it was taken
  rPos,              \* how many pairs of it each reader passed, -1 for none
  rRead              \* the pairs of it given to the program, in time

mBuffer == <<mLen, mTot, mInc>>
mText == <<mItems, mPos, mSplit>>
msgVars == <<mMode, mText, mBuffer, gText, gSplit, gTaken, rPos, rRead>>

-----------------------------------------------------------------------------
(* The buffer.                                                             *)

Needed(item) == mLen + MsgLen[item] + MsgAddLen

\* addinc when a pair is added to others
IncAfter ==
  IF mInc <= MsgMaxInc THEN mInc * 2
  ELSE IF mTot > 8 * mInc THEN mTot \div 4 ELSE mInc

\* Mutant: the room behind key and value is not asked for.
TotalWithoutFixed(item) ==
  IF mItems = <<>> THEN MsgLen[item] + MsgAddLen + MsgBuffLen
  ELSE IF mTot < mLen + MsgLen[item] THEN Needed(item) + IncAfter ELSE mTot
\* tot after a pair was written
TotalAfter(item) ==
  IF mItems = <<>> THEN MsgLen[item] + MsgAddLen + MsgBuffLen
  ELSE IF mTot < Needed(item) THEN Needed(item) + IncAfter ELSE mTot

\* write-message: rim_write_msg()
WriteMessage(item) ==
  /\ mMode # "read"
  /\ Len(mItems) < MaxItems
  /\ mMode' = "write"
  /\ mItems' = Append(mItems, item)
  /\ mLen' = mLen + MsgLen[item] + MsgFixed
  /\ mTot' = TotalAfter(item)
  /\ mInc' = IF mItems = <<>> THEN MsgBuffLen ELSE IncAfter
  /\ UNCHANGED <<mPos, mSplit, gText, gSplit, gTaken, rPos, rRead>>

-----------------------------------------------------------------------------
(* Reading.                                                                *)

\* The next pair behind pos that is not a comment, or the end.
NextPair(items, pos) ==
  LET pairs == {i \in pos + 1 .. Len(items) : items[i] \notin MsgComments}
  IN IF pairs = {} THEN Len(items) + 1 ELSE CHOOSE i \in pairs : \A j \in pairs : i <= j

\* Mutant: the separator of a pair is put back after it was read.
SplitBefore(split, pos) == split
\* How many pairs cannot be parsed any more when those up to pos were read.
SplitAfter(split, pos) == IF pos > split THEN pos ELSE split

\* rim_read_msg() at pos of a text of which "split" pairs were read: the
\* position afterwards, the pairs that were read and the one that is given.
\* A comment at the end is passed, and what follows is not in the format.
ReadAfter(items, pos, split) ==
  LET pair == NextPair(items, pos) IN
  IF pos >= Len(items) \/ pos < split   \* RIM_ERR_LENGTH, RIM_ERR_FORMAT
  THEN [pos |-> pos, split |-> split, given |-> <<>>]
  ELSE IF pair > Len(items)             \* RIM_ERR_FORMAT
  THEN [pos |-> Len(items), split |-> SplitAfter(split, Len(items)), given |-> <<>>]
  ELSE [pos |-> pair, split |-> SplitAfter(split, pair), given |-> <<items[pair]>>]

\* read-message of the message that was written: the first time it goes back
\* to the beginning.
ReadMessage ==
  LET start == IF mMode = "read" THEN mPos ELSE 0
      r == ReadAfter(mItems, start, mSplit)
  IN
  /\ mMode' = "read"
  /\ mPos' = r.pos /\ mSplit' = r.split
  /\ UNCHANGED <<mItems, mBuffer, gText, gSplit, gTaken, rPos, rRead>>

\* get-message: rim_get_msg(). The text goes to the program and the message is
\* made anew; a message without text stays as it is. The program lets go of
\* the text it had.
GetMessage ==
  /\ mItems # <<>>
  /\ gText' = mItems /\ gSplit' = mSplit /\ gTaken' = mSplit
  /\ rPos' = [r \in MsgReader |-> -1] /\ rRead' = <<>>
  /\ mMode' = "none" /\ mItems' = <<>> /\ mPos' = 0 /\ mSplit' = 0
  /\ mLen' = 0 /\ mInc' = MsgBuffLen
  /\ UNCHANGED mTot

\* new-message with from
NewMessageFrom(r) ==
  /\ gText # <<>>
  /\ rPos' = [rPos EXCEPT ![r] = 0]
  /\ UNCHANGED <<mMode, mText, mBuffer, gText, gSplit, gTaken, rRead>>

\* read-message of a message made of the text
ReadMessageFrom(r) ==
  LET read == ReadAfter(gText, rPos[r], gSplit) IN
  /\ rPos[r] # -1
  /\ rPos' = [rPos EXCEPT ![r] = read.pos]
  /\ gSplit' = read.split
  /\ rRead' = rRead \o read.given
  /\ UNCHANGED <<mMode, mText, mBuffer, gText, gTaken>>

\* new-message
MsgInit ==
  /\ mMode = "none" /\ mItems = <<>> /\ mPos = 0 /\ mSplit = 0
  /\ mLen = 0 /\ mTot = 0 /\ mInc = MsgBuffLen
  /\ gText = <<>> /\ gSplit = 0 /\ gTaken = 0
  /\ rPos = [r \in MsgReader |-> -1] /\ rRead = <<>>

MsgNext ==
  \/ \E item \in MsgItem : WriteMessage(item)
  \/ ReadMessage \/ GetMessage
  \/ \E r \in MsgReader : NewMessageFrom(r) \/ ReadMessageFrom(r)

MsgSpec == MsgInit /\ [][MsgNext]_msgVars

-----------------------------------------------------------------------------
(* Properties.                                                             *)

\* However the sizes of the pairs follow each other, the text and the null
\* behind it fit in the memory that was allocated: checking the need before
\* the increment and growing by it never leaves the last pair short.
MsgBufferHolds == mItems # <<>> => mLen < mTot

\* The pairs of the text that were read from it since it was taken
PairsRead == {i \in gTaken + 1 .. gSplit : gText[i] \notin MsgComments}

\* Pairs of a text are given to the program in the order they were written, and
\* none twice, however many messages are made of the text and in whatever order
\* they are read: each pair that was read was given once, behind as many as
\* were read before it.
MsgReadOnce ==
  /\ Len(rRead) = Cardinality(PairsRead)
  /\ \A i \in PairsRead : rRead[Cardinality({j \in PairsRead : j <= i})] = gText[i]

=============================================================================
