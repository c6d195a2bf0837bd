------------------------------- MODULE OCSpan -------------------------------
(***************************************************************************)
(* What the translators share: the spans and nodes of OpenCensus, ids in   *)
(* the three shapes in which they travel (bytes, 64-bit numbers, hex), and *)
(* times.                                                                  *)
(*                                                                         *)
(* Bytes of an id are the sequence of their 64-bit numbers: <<>> is nil, a *)
(* trace id has two, a span id one, and any other length is a wrong one.   *)
(* The text of a name, tag or message is a word.  Times are nanoseconds.   *)
(***************************************************************************)
EXTENDS Integers, Lists, FiniteSetsExt, SequencesExt, TLC

CONSTANT None   \* a nil pointer, map or slice

(* translator/trace/big_endian_converter.go                                *)
UInt64ToByteTraceID(high, low) == IF high = 0 /\ low = 0 THEN <<>> ELSE <<high, low>>
UInt64ToByteSpanID(id)         == IF id = 0 THEN <<>> ELSE <<id>>

(* Whether BytesToUInt64TraceID and BytesToUInt64SpanID return no error.   *)
IsTraceID(bytes) == Len(bytes) = 2
IsSpanID(bytes)  == Len(bytes) = 1

(* What they return: zeros for an error.                                   *)
BytesToUInt64TraceID(bytes) == IF IsTraceID(bytes) THEN bytes ELSE <<0, 0>>
BytesToUInt64SpanID(bytes)  == IF IsSpanID(bytes) THEN bytes[1] ELSE 0

-----------------------------------------------------------------------------
(* A time.Time is None when it is zero: it is then in the year 1, out of   *)
(* the range of UnixNano, which wraps around to a time before the epoch.   *)
Wrapped == -5000000

TimeAdd(t, duration) ==
  IF t # None THEN t + duration ELSE IF duration = 0 THEN None ELSE Wrapped + duration

(* Text is a word; nil and the empty text are told apart.                  *)
strToTruncatableString(s) == IF s = "" THEN None ELSE s
truncableStringToStr(s)   == IF s = None THEN "" ELSE s

(* Attributes: a typed word each, or None for a nil one.                   *)
Attr(t, word) == [t |-> t, v |-> word]
Keys(attrs)   == IF attrs = None THEN {} ELSE DOMAIN attrs

(* The sequence f[x] of the elements x of a set: a map has no order.       *)
InSomeOrder(set, Op(_)) == FoldSet(LAMBDA x, s : Append(s, Op(x)), <<>>, set)

(* The number that a word writes: the code of a status, a port.            *)
IntWords == [n \in -1..20 |-> ToString(n)]
IsInt(word) == word \in Range(IntWords)
IntOf(word) == CHOOSE n \in DOMAIN IntWords : IntWords[n] = word

(* A span without anything but its ids.                                    *)
BareSpan(traceId, spanId, parentId) ==
  [traceId |-> traceId, spanId |-> spanId, parentId |-> parentId, name |-> None,
   kind |-> "unspecified", start |-> None, end |-> None, attrs |-> None, events |-> None,
   links |-> None, status |-> None, state |-> None, same |-> None, children |-> None]

(* A node: the process that made the spans.  "" is not set, pid 0 neither. *)
BareNode(service) ==
  [service |-> service, host |-> "", pid |-> "", started |-> "", language |-> "",
   exporter |-> "", core |-> "", attrs |-> <<>>]

=============================================================================
