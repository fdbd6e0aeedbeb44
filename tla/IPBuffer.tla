------------------------------- MODULE IPBuffer -------------------------------
(***************************************************************************)
(* The fragments of one datagram: IPFragment and IPReassemblyBuffer of     *)
(* stream/ip_reassembly.py, as operators on a record.  Offsets and lengths *)
(* are in blocks of 8 bytes (the last block may be shorter on the wire);   *)
(* the payload is a sequence of labels, one per block.                     *)
(*                                                                         *)
(* Left out because no code reads them: total_length,                      *)
(* last_fragment_offset, created_time and a fragment's packet.             *)
(***************************************************************************)
EXTENDS Integers, Sequences, SequencesExt

Fragment(offset, data, is_last) == [offset |-> offset, data |-> data, is_last |-> is_last]

FragmentEnd(frag) == frag.offset + Len(frag.data)

NewBuffer(time) ==
  [fragments |-> <<>>, has_first |-> FALSE, complete |-> FALSE, last_update |-> time]

\* The list is sorted already and the sort is stable: a new fragment ends up behind
\* those with its own offset.
SortIn(fragments, frag) ==
  LET after == {i \in DOMAIN fragments : fragments[i].offset > frag.offset}
  IN  InsertAt(fragments, Min(after \cup {Len(fragments) + 1}), frag)

\* Mutant: extending a fragment keeps its last-fragment mark.
MergeFragmentKeepsMark(merged, frag) ==
  LET last    == Last(merged)
      overlap == FragmentEnd(last) - frag.offset
      Become(f) == Append(Front(merged), f)
  IN  CASE overlap < 0 -> Append(merged, frag)
        [] overlap >= 0 /\ FragmentEnd(frag) > FragmentEnd(last) ->
             Become([last EXCEPT !.data = @ \o SubSeq(frag.data, overlap + 1, Len(frag.data))])
        [] OTHER -> merged

\* Mutant: a fragment that touches the one before is not merged into it.
MergeFragmentTouching(merged, frag) ==
  LET last    == Last(merged)
      overlap == FragmentEnd(last) - frag.offset
      Become(f) == Append(Front(merged), f)
  IN  CASE overlap <= 0 -> Append(merged, frag)
        [] overlap > 0 /\ FragmentEnd(frag) > FragmentEnd(last) ->
             Become(Fragment(last.offset,
                             last.data \o SubSeq(frag.data, overlap + 1, Len(frag.data)),
                             frag.is_last))
        [] OTHER -> merged

\* One turn of the loop of _merge_fragments.  A fragment that extends the one before
\* decides whether the result is the last; a contained one only when the ends agree.
MergeFragment(merged, frag) ==
  LET last    == Last(merged)
      overlap == FragmentEnd(last) - frag.offset
      Become(f) == Append(Front(merged), f)
  IN  CASE overlap < 0 -> Append(merged, frag)
        [] overlap >= 0 /\ FragmentEnd(frag) > FragmentEnd(last) ->
             Become(Fragment(last.offset,
                             last.data \o SubSeq(frag.data, overlap + 1, Len(frag.data)),
                             frag.is_last))
        [] overlap >= 0 /\ FragmentEnd(frag) = FragmentEnd(last) /\ frag.is_last ->
             Become([last EXCEPT !.is_last = TRUE])
        [] OTHER -> merged

MergeFragments(fragments) ==
  FoldLeft(MergeFragment, <<Head(fragments)>>, Tail(fragments))

\* The merged fragments start at 0, leave no gap and end with a last fragment.
IsComplete(fragments) ==
  /\ fragments # <<>>
  /\ Head(fragments).offset = 0
  /\ Last(fragments).is_last
  /\ \A i \in 2..Len(fragments) :
       \E j \in 1..(i - 1) : fragments[i].offset <= FragmentEnd(fragments[j])

AssembleData(fragments) == FlattenSeq([i \in DOMAIN fragments |-> fragments[i].data])

AddFragment(buffer, frag, time) ==
  LET fragments == MergeFragments(SortIn(buffer.fragments, frag))
  IN  [ fragments   |-> fragments,
        has_first   |-> buffer.has_first \/ frag.offset = 0,
        complete    |-> buffer.complete \/ IsComplete(fragments),
        last_update |-> time ]
=============================================================================
