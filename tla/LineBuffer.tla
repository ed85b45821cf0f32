----------------------------- MODULE LineBuffer -----------------------------
(***************************************************************************)
(* Lines out of the bytes of a pipe (src/sink/line-buffer.ts).  The pipe   *)
(* cuts the bytes anywhere, inside a line or inside a character, and the   *)
(* writer may die after any byte.                                          *)
(***************************************************************************)
EXTENDS Naturals, Sequences, FiniteSets

CONSTANTS
  Width,    \* of each character: its bytes in UTF-8; "\n" is one of them
  Texts     \* bound: what the writer may write

Chars == DOMAIN Width
Newline == "\n"
Broken == "replacement"   \* what stands for bytes that are no whole character

ASSUME BufferConstants ==
  /\ Width \in [Chars -> Nat \ {0}] /\ Newline \in Chars /\ Width[Newline] = 1
  /\ Texts \subseteq Seq(Chars)

VARIABLES
  text,    \* what the writer writes
  stop,    \* how far it came before it ended or died
  got,     \* how far the chunks pushed so far go
  held,    \* StringDecoder: the bytes of a character not whole yet
  carry,   \* the characters after the last newline
  emitted, \* onLine calls
  flushed

bufferVars == <<text, stop, got, held, carry, emitted, flushed>>

-----------------------------------------------------------------------------
(* Between two bytes: <<n, i>> is past the n-th character and i bytes of   *)
(* the next.                                                               *)

Points == UNION {{<<n, i>> : i \in 0..(IF n = Len(text) THEN 0 ELSE Width[text[n + 1]] - 1)} :
                   n \in 0..Len(text)}

Upto(p, q) == p[1] < q[1] \/ (p[1] = q[1] /\ p[2] <= q[2])

BufferInit ==
  /\ text \in Texts /\ stop \in Points
  /\ got = <<0, 0>> /\ held = 0 /\ carry = <<>> /\ emitted = <<>> /\ flushed = FALSE

-----------------------------------------------------------------------------
(* The buffer.                                                             *)

\* Mutant: each chunk is decoded on its own.
DecodedAlone(to) ==
  [k \in 1..(to[1] - got[1]) |-> IF k = 1 /\ got[2] > 0 THEN Broken ELSE text[got[1] + k]]
    \o (IF to[2] > 0 THEN <<Broken>> ELSE <<>>)

\* decoder.write of the bytes from `got` on: the characters that end in
\* them, the first one whole if the bytes before were held back.
Write(to) ==
  [k \in 1..(to[1] - got[1]) |-> IF k = 1 /\ held # got[2] THEN Broken ELSE text[got[1] + k]]

Complete == \E i \in DOMAIN carry : carry[i] = Newline

\* A chunk comes when the lines of the one before are out.
Push ==
  /\ ~Complete /\ ~flushed
  /\ \E to \in Points \ {got} :
       /\ Upto(got, to) /\ Upto(to, stop)
       /\ carry' = carry \o Write(to)
       /\ held' = IF to[1] = got[1] THEN held + (to[2] - got[2]) ELSE to[2]
       /\ got' = to
  /\ UNCHANGED <<text, stop, emitted, flushed>>

\* push's loop: the line before the first newline goes out, what follows stays.
EmitLine ==
  \E i \in DOMAIN carry :
    /\ carry[i] = Newline /\ \A j \in 1..(i - 1) : carry[j] # Newline
    /\ emitted' = Append(emitted, SubSeq(carry, 1, i - 1))
    /\ carry' = SubSeq(carry, i + 1, Len(carry))
    /\ UNCHANGED <<text, stop, got, held, flushed>>

\* decoder.end: a character left unfinished shows as broken.
LastLine == carry \o (IF held = 0 THEN <<>> ELSE <<Broken>>)

Flush ==
  /\ got = stop /\ ~Complete /\ ~flushed
  /\ emitted' = IF LastLine = <<>> THEN emitted ELSE Append(emitted, LastLine)
  /\ carry' = <<>> /\ held' = 0 /\ flushed' = TRUE
  /\ UNCHANGED <<text, stop, got>>

BufferNext == Push \/ EmitLine \/ Flush

BufferSpec == BufferInit /\ [][BufferNext]_bufferVars

-----------------------------------------------------------------------------
(* Properties.                                                             *)

\* The lines of a text, told by where its newlines are: line n is between
\* the newline n - 1 of them come before or at, and the next one or the end.
Newlines(t) == {p \in DOMAIN t : t[p] = Newline}
NewlinesTo(t, p) == {q \in Newlines(t) : q <= p}
IsLine(line, n, t) ==
  \E a \in Newlines(t) \cup {0}, b \in Newlines(t) \cup {Len(t) + 1} :
    /\ a < b /\ \A q \in Newlines(t) : q <= a \/ b <= q
    /\ Cardinality(NewlinesTo(t, a)) = n - 1
    /\ line = SubSeq(t, a + 1, b - 1)

\* The whole characters pushed so far, and all that was written.
SoFar == SubSeq(text, 1, got[1])
Written == SubSeq(text, 1, stop[1]) \o (IF stop[2] = 0 THEN <<>> ELSE <<Broken>>)

\* However the bytes are cut, the lines a caller hears are those written: at
\* any moment lines completed by the bytes so far, in order, and all of them
\* once push is through; at the end the last one too when it has no newline;
\* a character is broken only when the writer died inside it.
LinesAsWritten ==
  IF flushed
    THEN /\ \A n \in DOMAIN emitted : IsLine(emitted[n], n, Written)
         /\ Len(emitted) = Cardinality(Newlines(Written))
                             + (IF Written = <<>> \/ Written[Len(Written)] = Newline THEN 0 ELSE 1)
    ELSE /\ \A n \in DOMAIN emitted : IsLine(emitted[n], n, SoFar)
         /\ Len(emitted) <= Cardinality(Newlines(SoFar))
         /\ ~Complete => Len(emitted) = Cardinality(Newlines(SoFar))

=============================================================================
