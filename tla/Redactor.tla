------------------------------ MODULE Redactor ------------------------------
(***************************************************************************)
(* packages/redact: the matcher that replaces configured values in a byte  *)
(* stream that arrives in chunks.  A byte is a member of Letters, a value  *)
(* a sequence of them.  The stream keeps back input that may be the start  *)
(* of a value, and output that may become one once more output is joined   *)
(* to it.                                                                  *)
(***************************************************************************)
EXTENDS Naturals, Sequences, FiniteSets
LOCAL INSTANCE FiniteSetsExt
LOCAL INSTANCE SequencesExt

CONSTANTS
    Letters,      \* the bytes of the input
    Vocabularies, \* the sets of values a matcher may be compiled from
    Candidates,   \* replacementCandidates, in order
    MaxFed,       \* bound on the input's length
    MaxChunk      \* bound on one chunk's length

VARIABLES
    secrets,    \* the compiled patterns
    held,       \* Stream.pending: input not yet decided
    outHeld,    \* Stream.outputPending: output not yet safe to emit
    fed,        \* all input pushed
    emitted     \* all output returned

redactVars == <<secrets, held, outHeld, fed, emitted>>

Drop(s, n) == SubSeq(s, n + 1, Len(s))
Holds(s, p) == \E i \in 0..Len(s) : IsPrefix(p, Drop(s, i))

(* Compile drops the empty value and duplicates.                           *)
Compile(values) == values \ {<<>>}

(* The first candidate that neither contains nor is contained in a value.  *)
chooseReplacement(patterns) ==
    LET Safe(c) == \A p \in patterns : ~Holds(c, p) /\ ~Holds(p, c)
    IN IF \E i \in DOMAIN Candidates : Safe(Candidates[i])
       THEN Candidates[Min({i \in DOMAIN Candidates : Safe(Candidates[i])})]
       ELSE <<>>

(* Patterns are tried longest first.                                       *)
matchLongestOnly(data) ==
    LET m == Max({Len(q) : q \in secrets} \cup {0})
    IN Max({Len(p) : p \in {q \in secrets : Len(q) = m /\ IsPrefix(q, data)}} \cup {0})
matchPrefix(data) == Max({Len(p) : p \in {q \in secrets : IsPrefix(q, data)}} \cup {0})

pendingIsSecretPrefix(data) ==
    \E p \in secrets : Len(data) < Len(p) /\ IsPrefix(data, p)

(* Occurrences in the joined output are cut out, the leftmost first and    *)
(* the longest of those, until none is left.                               *)
RECURSIVE removeSecretOccurrences(_)
removeSecretOccurrences(s) ==
    LET starts == {i \in 0..Len(s) : matchPrefix(Drop(s, i)) > 0}
    IN IF starts = {} THEN s
       ELSE LET i == Min(starts)
            IN removeSecretOccurrences(SubSeq(s, 1, i)
                                       \o Drop(s, i + matchPrefix(Drop(s, i))))

longestSecretPrefixSuffix(s) ==
    Max({n \in 0..Len(s) : n = 0 \/ \E p \in secrets :
            n < Len(p) /\ Drop(s, Len(s) - n) = SubSeq(p, 1, n)})

(* appendSanitized and emitSafePrefix on the record [held, out].           *)
Sanitized(o, data) ==
    LET joined == removeSecretOccurrences(o.held \o data)
        emit   == Len(joined) - longestSecretPrefixSuffix(joined)
    IN IF data = <<>> THEN o
       ELSE [held |-> Drop(joined, emit), out |-> o.out \o SubSeq(joined, 1, emit)]

(* The loop of consume: literal counts the undecided literal bytes before  *)
(* the position.                                                           *)
RECURSIVE Consumed(_, _, _, _)
Consumed(pending, literal, final, o) ==
    LET rest == Drop(pending, literal)
        run  == SubSeq(pending, 1, literal)
        n    == matchPrefix(rest)
    IN IF rest # <<>> /\ n > 0
       THEN Consumed(Drop(rest, n), 0, final,
                     Sanitized(Sanitized(o, run), chooseReplacement(secrets)))
       ELSE IF rest = <<>> \/ (~final /\ pendingIsSecretPrefix(rest))
       THEN [pending |-> rest, o |-> Sanitized(o, run)]
       ELSE Consumed(pending, literal + 1, final, o)

(* What Flush would return now.                                            *)
Flushed ==
    LET c == Consumed(held, 0, TRUE, [held |-> outHeld, out |-> <<>>])
    IN c.o.out \o c.o.held

(* Matcher.Bytes: one Push of everything and a Flush.                      *)
Bytes(data) ==
    LET c == Consumed(data, 0, FALSE, [held |-> <<>>, out |-> <<>>])
        d == Consumed(c.pending, 0, TRUE, [held |-> c.o.held, out |-> <<>>])
    IN c.o.out \o d.o.out \o d.o.held

RedactInit ==
    /\ \E values \in Vocabularies : secrets = Compile(values)
    /\ held = <<>>
    /\ outHeld = <<>>
    /\ fed = <<>>
    /\ emitted = <<>>

Push(data) ==
    LET c == Consumed(held \o data, 0, FALSE, [held |-> outHeld, out |-> <<>>])
    IN /\ held' = c.pending
       /\ outHeld' = c.o.held
       /\ emitted' = emitted \o c.o.out
       /\ fed' = fed \o data
       /\ UNCHANGED secrets

RedactNext ==
    \E n \in 1..MaxChunk : \E data \in [1..n -> Letters] :
        /\ Len(fed) + n <= MaxFed
        /\ Push(data)

RedactSpec == RedactInit /\ [][RedactNext]_redactVars

-----------------------------------------------------------------------------
(* Properties.                                                             *)

PrefixFree == \A p, q \in secrets : p # q => ~IsPrefix(p, q)

(* Types: the stream keeps back less than one value, of input and of       *)
(* output: chunks are never buffered whole.                                *)
RedactTypeOK ==
    /\ \A p \in secrets : p # <<>>
    /\ secrets = {} => held = <<>> /\ outHeld = <<>>
    /\ secrets # {} => LET m == Max({Len(p) : p \in secrets})
                       IN Len(held) < m /\ Len(outHeld) < m

(* Whatever the chunk boundaries, the output so far and the output with a  *)
(* flush appended contain no configured value, even where two pieces of    *)
(* output meet.                                                            *)
OutputIsClean ==
    \A p \in secrets : ~Holds(emitted \o Flushed, p)

(* Where the chunks were cut does not show: when no value is the start of  *)
(* another the stream's output is what one call on the whole input gives.  *)
ChunksInvisible ==
    PrefixFree => emitted \o Flushed = Bytes(fed)

\* RedactorSafe: no secret reaches the output, however the input is cut into chunks,
\* and the cuts do not show.
RedactorSafe == RedactTypeOK /\ OutputIsClean /\ ChunksInvisible
=============================================================================
