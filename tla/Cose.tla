------------------------------------ MODULE Cose -----------------------------------
(***********************************************************************************)
(* The payload of a COSE_Sign1 message (cose.rs), over bytes.  The function skip    *)
(* stands for the recursion of skip_cbor_item.  A position is one less than the     *)
(* index of its byte, as in the code; NoPos is Err.                                 *)
(***********************************************************************************)
EXTENDS Integers, Sequences, SequencesExt

UINT == 0
NINT == 1
BSTR == 2
TSTR == 3
ARRAY == 4
MAP == 5
TAG == 6
SIMPLE == 7
COSE_SIGN1_TAG_BYTE == 210
COSE_SIGN1_ARRAY_BYTE == 132
COSE_SIGN1_MIN_SIZE == 4

NoPos == -1
NoHead == [ok |-> FALSE, major |-> 0, value |-> 0, at |-> NoPos]
BigEndian(s) == FoldLeft(LAMBDA v, x : 256 * v + x, 0, s)

(* The bytes of the length that follow the initial byte: 24..27 announce 1, 2, 4 or  *)
(* 8.  A length that TLC cannot count stands for one beyond every message.           *)
Following(addl) == CASE addl <= 23 -> 0 [] addl = 24 -> 1 [] addl = 25 -> 2
                     [] addl = 26 -> 4 [] addl = 27 -> 8
Huge == 100000
Counted(s) == IF \E i \in DOMAIN s : i <= Len(s) - 2 /\ s[i] # 0 THEN Huge ELSE BigEndian(s)

read_cbor_head_NoFollowing(data, pos) ==   \* faulty: the length bytes are not stepped over
    IF pos >= Len(data) \/ data[pos + 1] % 32 > 27 THEN NoHead
    ELSE [ok |-> TRUE, major |-> data[pos + 1] \div 32, value |-> data[pos + 1] % 32,
          at |-> pos + 1]
read_cbor_head(data, pos) ==
    LET addl   == data[pos + 1] % 32
        at     == pos + 1 + Following(addl)
    IN  IF pos >= Len(data) \/ addl > 27 \/ at > Len(data) THEN NoHead
        ELSE [ok |-> TRUE, major |-> data[pos + 1] \div 32, at |-> at,
              value |-> IF addl <= 23 THEN addl ELSE Counted(SubSeq(data, pos + 2, at))]

(* Where count items from pos on end, items within items included: skip_cbor_item    *)
(* and its loops over the elements of arrays and maps.                              *)
SkipItems(data, start, number) ==
    LET skip[pos \in Int, count \in Nat] ==
          LET head == read_cbor_head(data, pos)
              item == CASE ~head.ok -> NoPos
                        [] head.ok /\ head.major \in {UINT, NINT, SIMPLE} -> head.at
                        [] head.ok /\ head.major \in {BSTR, TSTR} ->
                             IF head.at + head.value <= Len(data) THEN head.at + head.value
                                                                  ELSE NoPos
                        [] head.ok /\ head.major = ARRAY -> skip[head.at, head.value]
                        [] head.ok /\ head.major = MAP -> skip[head.at, 2 * head.value]
                        [] head.ok /\ head.major = TAG -> skip[head.at, 1]
          IN  IF count = 0 \/ pos = NoPos THEN pos ELSE skip[item, count - 1]
    IN  skip[start, number]
skip_cbor_item(data, pos) == SkipItems(data, pos, 1)

NoPayload == [ok |-> FALSE, payload |-> <<>>]
ByteString(data, head) ==
    IF head.ok /\ head.major \in {BSTR, TSTR} /\ head.at + head.value <= Len(data)
    THEN [ok |-> TRUE, payload |-> SubSeq(data, head.at + 1, head.at + head.value)]
    ELSE NoPayload
read_cbor_bstr(data, pos) == ByteString(data, read_cbor_head(data, pos))

(* The headers, protected and not, are skipped by their lengths.                    *)
PayloadAt(data, pos) == IF pos = NoPos THEN NoPayload ELSE read_cbor_bstr(data, pos)
parse_cose_sign1_payload(data) ==
    IF /\ Len(data) >= COSE_SIGN1_MIN_SIZE
       /\ data[1] = COSE_SIGN1_TAG_BYTE
       /\ data[2] = COSE_SIGN1_ARRAY_BYTE
    THEN PayloadAt(data, SkipItems(data, 2, 2))
    ELSE NoPayload
====================================================================================
