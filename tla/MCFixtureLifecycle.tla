------------------------ MODULE MCFixtureLifecycle --------------------------
(* Instances of FixtureLifecycle for TLC.                                   *)
EXTENDS FixtureLifecycle

\* Two process-wide fixtures, one built on the other, and two of a scenario.
Names == {"database", "server", "account", "session"}
Needs == [f \in Names |-> CASE f = "database" -> {}
                            [] f = "server" -> {"database"}
                            [] f = "account" -> {"server"}
                            [] f = "session" -> {"server", "account"}]
\* The second scenario reuses the first one's server, and its own account.
TwoScenarios == << << {"account"} >>, << {"account"}, {"session"} >> >>
=============================================================================
