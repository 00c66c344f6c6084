----------------------------- MODULE MCFunction -----------------------------
(* Instances of the Function reconciler for TLC: which specs a user        *)
(* switches between.                                                       *)
EXTENDS FunctionProperties

CONSTANTS i1, i2, b1, b2, h1, h2, a1

MCImages == {i1, i2}
MCBuildImpls == {b1, b2}
MCHttpImpls == {h1, h2}
MCAsyncImpls == {a1}
FnSpec(i, b, s) == [image |-> i, build |-> b, serving |-> s]

\* The source or builder image changes, nothing is served.
BuildOnly == {FnSpec(i1, b1, NoServing), FnSpec(i1, b2, NoServing)}
\* A ready-made image is served, with one of two configurations.
ServeOnly == {FnSpec(i1, NoBuild, h1), FnSpec(i1, NoBuild, h2)}
\* The serving section is removed or added, with or without another build.
ServingRemoved == {FnSpec(i1, b1, h1), FnSpec(i1, b1, NoServing), FnSpec(i1, b2, NoServing)}
\* A function with a ready-made image asks for a build, or no more.
BuildAdded == {FnSpec(i1, NoBuild, h1), FnSpec(i1, b1, h1)}
\* Build, serving or trigger change, or the serving section goes with the old build.
Sections == {FnSpec(i1, b1, h1), FnSpec(i1, b1, h2), FnSpec(i1, b2, NoServing), FnSpec(i1, b2, a1)}
\* Changes after which the function always gets to an end.
Mixed == {FnSpec(i1, b1, h1), FnSpec(i2, b1, a1), FnSpec(i2, NoBuild, h2)}
=============================================================================
