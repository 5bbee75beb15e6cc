------------------------------- MODULE Decoder -------------------------------
(***************************************************************************)
(* From bytes to text: SubprocessRepl._recv replaces \r\n in what one read *)
(* returned, Repl.read decodes it with an incremental decoder.  A chunk    *)
(* may end anywhere, also inside \r\n and inside a character.              *)
(*                                                                         *)
(* "a" is a character of one byte, "m1" "m2" are the two bytes of another, *)
(* "bad" is a byte no character has, "box" stands for what replaces a      *)
(* chunk that cannot be decoded.                                           *)
(***************************************************************************)
EXTENDS Naturals, Sequences

CONSTANT MaxBytes   \* bound: bytes the program writes

ASSUME BytesAssumption == MaxBytes \in Nat

Tokens == {"a", "cr", "nl", "m1", "m2", "bad"}

VARIABLES
  raw,      \* the bytes read so far
  half,     \* the decoder holds the first byte of a character
  decoded,  \* the text read() has returned
  broken    \* history: a chunk could not be decoded

dcVars == <<raw, half, decoded, broken>>

DcInit == raw = <<>> /\ half = FALSE /\ decoded = <<>> /\ broken = FALSE

\* The elements of s at the places in kept.
Only(s, kept) ==
  LET upTo[n \in 0..Len(s)] ==
        IF n = 0 THEN <<>>
        ELSE IF n \in kept THEN Append(upTo[n - 1], s[n]) ELSE upTo[n - 1]
  IN  upTo[Len(s)]

\* _bytes.replace(b'\r\n', b'\n')
Newlines(s) ==
  Only(s, {i \in 1..Len(s) : ~(s[i] = "cr" /\ i < Len(s) /\ s[i + 1] = "nl")})

\* No byte is wrong, however the text goes on.
Decodable(s) ==
  \A i \in 1..Len(s) :
    /\ s[i] # "bad"
    /\ s[i] = "m1" /\ i < Len(s) => s[i + 1] = "m2"
    /\ s[i] = "m2" => i > 1 /\ s[i - 1] = "m1"

EndsInHalf(s) == s # <<>> /\ s[Len(s)] = "m1"
Whole(s) == IF EndsInHalf(s) THEN SubSeq(s, 1, Len(s) - 1) ELSE s

\* What if each chunk were decoded for itself?
DecodeAlone(bs) ==
  IF Decodable(bs)
    THEN /\ decoded' = decoded \o Whole(bs) /\ half' = EndsInHalf(bs)
         /\ UNCHANGED broken
    ELSE /\ decoded' = Append(decoded, "box") /\ half' = FALSE
         /\ broken' = TRUE

\* What if the decoder dropped the byte it holds?
DecodeForgets(bs) ==
  IF Decodable(bs) \/ (bs[1] = "m2" /\ Decodable(<<"m1">> \o bs))
    THEN /\ decoded' = decoded \o Whole(bs) /\ half' = FALSE
         /\ UNCHANGED broken
    ELSE /\ decoded' = Append(decoded, "box") /\ half' = FALSE
         /\ broken' = TRUE

\* self.decoder.decode(bs), or the box and reset_decoder().
Decode(bs) ==
  LET all == IF half THEN <<"m1">> \o bs ELSE bs
  IN  IF Decodable(all)
        THEN /\ decoded' = decoded \o Whole(all) /\ half' = EndsInHalf(all)
             /\ UNCHANGED broken
        ELSE /\ decoded' = Append(decoded, "box") /\ half' = FALSE
             /\ broken' = TRUE

\* One read, of any part of what the program writes.
ReadChunk ==
  \E n \in 1..(MaxBytes - Len(raw)) : \E chunk \in [1..n -> Tokens] :
    /\ raw' = raw \o chunk
    /\ Decode(Newlines(chunk))

DcNext == ReadChunk

DcSpec == DcInit /\ [][DcNext]_dcVars
-----------------------------------------------------------------------------
\* The text without any \r before a \n.
Norm(s) ==
  Only(s, {i \in 1..Len(s) : ~\E j \in i..Len(s) :
             i < j /\ s[j] = "nl" /\ \A k \in i..(j - 1) : s[k] = "cr"})
(* However the output is cut into chunks, the text is that of the whole,    *)
(* except for a \r that a cut keeps before a \n; the first byte of a         *)
(* character waits for the second.                                          *)
ChunksInvisible == ~broken => Norm(decoded) = Norm(Whole(raw))

(* A chunk is given up only when the output as a whole cannot be decoded:   *)
(* no cut through a character makes a box of it.                            *)
ErrorsAreReal == broken <=> ~Decodable(raw)

(* The text does not depend on where the output was cut into reads.         *)
SplitsAreInvisible == ChunksInvisible /\ ErrorsAreReal
=============================================================================
