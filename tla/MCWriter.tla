------------------------------ MODULE MCWriter ------------------------------
(***************************************************************************)
(* Instances of Writer for TLC.                                            *)
(***************************************************************************)
EXTENDS Writer, TLC

CONSTANTS m1, m2, p1

TwoMembers == {m1, m2}
OneMember == {m1}
OnePartition == {p1}
NoneUndecodable == {}
FirstUndecodable == {<<p1, 0>>}

MemberSymmetry == Permutations(Members)
=============================================================================
