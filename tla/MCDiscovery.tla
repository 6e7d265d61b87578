----------------------------- MODULE MCDiscovery -----------------------------
(* The instance of Discovery for TLC: a simulator with one class, a device *)
(* with two, an older copy of the simulator, and a module that does not    *)
(* import.                                                                 *)
EXTENDS Discovery

CONSTANTS x1, x2, a1, a2

MCSimulator ==
    [service_name |-> "sim", api_bindings |-> <<"exec">>, qpm_type |-> 1,
     properties |-> [backend |-> "cpu"]]
MCDevice ==
    [service_name |-> "dev", api_bindings |-> <<"exec", "admin">>,
     properties |-> [backend |-> "qpu", qpm_type |-> 3]]
MCStatus == [service_name |-> "status", api_bindings |-> <<"exec">>]

MCDirs ==
    <<[dir |-> "svc_dirsvc", name |-> "Directory Service", imports |-> TRUE,
       ads |-> <<>>],
      [dir |-> "svc_old", name |-> "simulator", imports |-> TRUE,
       ads |-> <<[MCSimulator EXCEPT !.qpm_type = 2]>>],
      [dir |-> "svc_sim", name |-> "simulator", imports |-> TRUE,
       ads |-> <<MCSimulator>>],
      [dir |-> "svc_dev", name |-> "device", imports |-> TRUE,
       ads |-> <<MCDevice, MCStatus>>],
      [dir |-> "svc_broken", name |-> "broken", imports |-> FALSE,
       ads |-> <<>>],
      [dir |-> "svc_anon", name |-> "anonymous", imports |-> TRUE,
       ads |-> <<[api_bindings |-> <<"exec">>]>>]>>

All == {"svc_sim", "svc_old", "svc_dev"}
Env(config, disable, parent, only, noinit) ==
    [config |-> config, disable |-> disable, parent |-> parent,
     only_load |-> only, noinit_load |-> noinit]
Usual == Env("generic", "unset", TRUE, All, {})

\* Two registrations, of one process or of two at one address; a process that
\* is started again and two applications; a registration and an application.
Pair(e, c, k) ==
    [env |-> e, runs |-> k, context |-> x1 :> c @@ x2 :> Empty, asks |-> Empty]
Restart(e, f) ==
    [env |-> e, runs |-> 2, context |-> x1 :> Empty, asks |-> a1 :> f @@ a2 :> f]
One(e, c, f) ==
    [env |-> e, runs |-> 1, context |-> x1 :> c, asks |-> a1 :> f]

Lab == [service_id |-> "lab", service_name |-> "lab",
        properties |-> [site |-> "ornl", backend |-> "none"]]
Sim == [service_name |-> "sim"]

MCScenarios ==
    {Pair(Usual, Lab, 1),
     Pair(Env("generic", "unset", TRUE, {"svc_broken"}, {"svc_broken"}), Empty, 1),
     Pair(Env("generic", "unset", TRUE, {"svc_dev"}, {}), Empty, 2),
     Pair(Env("generic", "unset", TRUE, {"svc_sim", "svc_dev"}, {}), Empty, 1),
     Restart(Env("generic", "unset", TRUE, {"svc_dev"}, {}),
             [service_name |-> "dev", properties |-> [backend |-> "qpu"]]),
     One(Usual, Lab, [service_name |-> "lab", binding_name |-> "exec",
                      properties |-> [site |-> "ornl", backend |-> "cpu"]]),
     One(Env("custom", "no", TRUE, {"svc_sim", "svc_dev"}, {"svc_dev"}), Empty,
         [service_name |-> "sim", qpm_type |-> 1, selector_resource |-> "sim"]),
     One(Usual, Empty, [service_name |-> "dev", qpm_type |-> 2]),
     One(Env("generic", "unset", TRUE, {"svc_anon"}, {}), Empty, Sim),
     One(Env("generic", "unset", TRUE, {}, {}), Empty, Sim),
     One(Env("generic", "unset", FALSE, All, {}), Empty, Sim),
     One(Env("generic", "no", FALSE, All, {}), Empty, Sim),
     One(Env("custom", "no", FALSE, All, {}), Empty, Sim),
     One(Env("missing", "unset", TRUE, All, {}), Empty, Sim)}
=============================================================================
