------------------------------ MODULE NmeaLine ------------------------------
(***************************************************************************)
(* NmeaLineAssembler: sentences cut out of a stream of bytes that may begin *)
(* anywhere, lose any of them and carry garbage.  A byte is the start, a    *)
(* terminator or another one; wire is every byte the assembler was given.   *)
(***************************************************************************)
EXTENDS Naturals, Sequences, SequencesExt

CONSTANTS
  Start, Terminators, Others, \* the bytes
  MaxSentence,                \* MAX_SENTENCE_LEN
  MaxBytes                    \* bound on the stream

VARIABLES
  buf,        \* the sentence so far
  inSentence, \* in_sentence
  emitted,    \* what the last push returned, <<>> for None
  wire        \* history: the bytes pushed

vars == <<buf, inSentence, emitted, wire>>

Bytes == {Start} \union Terminators \union Others
-----------------------------------------------------------------------------
\* mutant: an overflowing sentence goes on without the byte
OtherKeepsPrefix(b) ==
  /\ b \in Others
  /\ emitted' = <<>>
  /\ IF inSentence /\ Len(buf) < MaxSentence
       THEN buf' = Append(buf, b) /\ UNCHANGED inSentence
       ELSE UNCHANGED <<buf, inSentence>>

(* The three arms of push.                                                   *)
StartByte(b) ==
  /\ b = Start
  /\ buf' = <<b>> /\ inSentence' = TRUE /\ emitted' = <<>>

Terminator(b) ==
  /\ b \in Terminators
  /\ emitted' = IF inSentence /\ Len(buf) > 1 THEN buf ELSE <<>>
  /\ inSentence' = FALSE /\ UNCHANGED buf

Other(b) ==
  /\ b \in Others
  /\ emitted' = <<>>
  /\ IF inSentence /\ Len(buf) = MaxSentence
       THEN buf' = <<>> /\ inSentence' = FALSE
       ELSE buf' = (IF inSentence THEN Append(buf, b) ELSE buf) /\ UNCHANGED inSentence

Push(b) ==
  /\ Len(wire) < MaxBytes /\ wire' = Append(wire, b)
  /\ StartByte(b) \/ Terminator(b) \/ Other(b)

Init == buf = <<>> /\ inSentence = FALSE /\ emitted = <<>> /\ wire = <<>>
Next == \E b \in Bytes : Push(b)
Spec == Init /\ [][Next]_vars
-----------------------------------------------------------------------------
\* the stretches of the stream that are a sentence: a start, no other start and
\* no terminator after it, and not too long
Sentences ==
  {SubSeq(wire, i, Len(wire) - 1) : i \in
     {i \in 1..(Len(wire) - 1) :
        /\ wire[i] = Start /\ Len(wire) - i \in 2..MaxSentence
        /\ \A j \in (i + 1)..(Len(wire) - 1) : wire[j] \in Others}}

\* Whatever came before it, a sentence that arrives whole is passed on, once and
\* at its terminator, and nothing else is: no joined, cut or overlong one
\* (assembler.rs:29-62).
SentencesWhole ==
  emitted = IF wire # <<>> /\ Last(wire) \in Terminators /\ Sentences # {}
              THEN CHOOSE s \in Sentences : TRUE ELSE <<>>
=============================================================================
