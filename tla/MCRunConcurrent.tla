-------------------------- MODULE MCRunConcurrent --------------------------
(* Instances of RunConcurrent for TLC.                                      *)
EXTENDS RunConcurrent

\* A control and a required scenario in one file, a second file, a serial one.
Mixed == << <<"a", 1>>, <<"a", 2>>, <<"b", 1>>, <<"s", 1>> >>
MixedControls == {<<"a", 2>>}
\* A required scenario, and a serial file with a control.
Small == << <<"a", 1>>, <<"s", 1>> >>
SmallControls == {<<"s", 1>>}
\* Two files.
Two == << <<"a", 1>>, <<"b", 1>> >>
NoControls == {}
=============================================================================
