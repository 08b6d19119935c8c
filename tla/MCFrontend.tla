----------------------------- MODULE MCFrontend -----------------------------
(***************************************************************************)
(* Tenants files of up to three entries over two keys, one of which may    *)
(* have white space around it, with good and bad rates and one id for two  *)
(* of the entries.                                                         *)
(***************************************************************************)
EXTENDS Frontend, SequencesExt

Key(text, padded) == [text |-> text, padded |-> padded]

Entry(id, key, rps) == [id |-> id, key |-> key, rps |-> rps]

MCEntries ==
    {Entry("a", Key("k1", FALSE), 1), Entry("b", Key("k2", FALSE), 1),
     Entry("b", Key("k1", TRUE), 1), Entry("c", Key("k2", FALSE), 0),
     Entry("d", Key("k1", FALSE), NaN)}

MCSettings ==
    {[is |-> "unset"], [is |-> "not unicode"], [is |-> "no file"], [is |-> "no JSON"]}
        \cup {[is |-> "tenants", tenants |-> s] : s \in BoundedSeq(MCEntries, 3)}

CONSTANTS r1, r2, r3

MCRequests == {r1, r2, r3}
AnyOrder == Permutations(MCRequests)

MCHeaders ==
    {[scheme |-> "none"], [scheme |-> "other", key |-> Key("k1", FALSE)]}
        \cup {[scheme |-> "Bearer", key |-> Key(t, p)] : t \in {"k1", "k3"}, p \in BOOLEAN}
==============================================================================
