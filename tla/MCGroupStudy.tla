---------------------------- MODULE MCGroupStudy ----------------------------
(***************************************************************************)
(* Three actions on modules of three functions for TLC, one study for each *)
(* way a group can come out: the rule holds, patches overlap, a frame      *)
(* changes, a pass fails, a merge is invalid, an effect depends on what    *)
(* one, or exactly one, of the other actions did.                          *)
(***************************************************************************)
EXTENDS ProgramLedger

ThreeActions == 1 .. 3
ThreeFunctions == 1 .. 3
ThreeBodies == 0 .. 2
TwoFrames == {"kept", "changed"}
PairAndTriple == <<{1, 2}, {1, 2, 3}>>

MCRoot == [frame |-> "kept", body |-> [f \in Functions |-> 0]]
With(m, f, b) == [m EXCEPT !.body[f] = b]

\* Passes, as what they make of module m.
Sets(f) == [m \in Modules |-> With(m, f, 1)]
Nothing == [m \in Modules |-> m]
ChangesFrame == [m \in Modules |-> [m EXCEPT !.frame = "changed"]]
FailsOn(bad, pass) == [m \in Modules |-> IF m \in bad THEN NoModule ELSE pass[m]]

Touched(f) == {m \in Modules : m.body[f] # 0}

\* Sets function 1 to another body where g was touched.
SeesChange(g) == [m \in Modules |-> With(m, 1, IF m \in Touched(g) THEN 2 ELSE 1)]
\* The same, unless function 3 was touched as well.
SeesLoneChange == [m \in Modules |-> With(m, 1, IF m \in Touched(2) \ Touched(3) THEN 2 ELSE 1)]
\* Sets function 1 and puts function 2 back.
Reverts == [m \in Modules |-> With(With(m, 1, 1), 2, 0)]
\* Sets function 1, and changes the frame where function 2 was touched.
ChangesFrameLater ==
  [m \in Modules |-> [With(m, 1, 1) EXCEPT !.frame = IF m \in Touched(2) THEN "changed" ELSE @]]

Of(first, second2, third, broken, stray, budget) ==
  [root |-> MCRoot, act |-> <<first, second2, third>>, broken |-> broken,
   strays |-> {stray}, budget |-> budget]

\* Wrong outputs: an odd body, and the merge of the actions 1 and 2.
Odd == With(MCRoot, 1, 2)
MergeOf12 == With(With(MCRoot, 1, 1), 2, 1)

StudyList ==
  <<Of(Sets(1), Sets(2), Sets(3), {}, Odd, 1),
    Of(Sets(1), Sets(2), Nothing, {MergeOf12}, Odd, 1),
    Of(Sets(1), Sets(1), Sets(3), {}, Odd, 1),
    Of(SeesChange(2), Sets(2), ChangesFrame, {}, MergeOf12, 2),
    Of(ChangesFrameLater, Sets(2), Sets(3), {}, Odd, 1),
    Of(Sets(1), Sets(2), FailsOn({MCRoot}, Sets(3)), {}, Odd, 1),
    Of(SeesChange(2), Sets(2), Sets(3), {}, MergeOf12, 1),
    Of(Reverts, Sets(2), Sets(3), {}, Odd, 1),
    Of(SeesLoneChange, Sets(2), Sets(3), {}, Odd, 1),
    Of(FailsOn(Touched(2) \ Touched(3), Sets(1)), Sets(2), Sets(3), {}, MergeOf12, 1)>>

\* A function TLC evaluates once.
GroupStudies == [i \in 1 .. 10 |-> StudyList[i]]
=============================================================================
