---------------------------- MODULE MC_MeshShader ----------------------------
(* Model-checking instances of MeshShader: the API mesh shaders whose       *)
(* barriers the runs exercise.                                              *)
EXTENDS MeshShader

\* one API barrier inside a loop: dynamic handling with the completion flag
LoopBarrier == << [postDom |-> TRUE, inCycle |-> TRUE] >>
\* two straight-line API barriers: the extra waves add two s_barriers
StraightBarriers == << [postDom |-> TRUE, inCycle |-> FALSE],
                       [postDom |-> TRUE, inCycle |-> FALSE] >>
MCApiShaders == {LoopBarrier, StraightBarriers}
MCRowApiShaders == {LoopBarrier}
\* SetMeshOutputs arguments: all vertices/primitives, and a zero count
MCOutputs == {<<5, 3>>, <<0, 2>>}
MCRowOutputs == {<<10, 9>>, <<7, 0>>}
=============================================================================
