---------------------------- MODULE MCDeployment ---------------------------
(* Two bureaus, a partner of the first and two ids for new ones, and        *)
(* environments that differ from a working one in a variable or two.        *)
EXTENDS Deployment, TLC

CONSTANTS b1, p1

MCHome == [p \in Partners |-> IF p = p1 THEN b1 ELSE NoBureau]

MCAttributes ==
    ("otdel_app" :> {}) @@ ("auditor" :> {"bypassrls"})
    @@ ("migrator" :> {"owns_tables", "reads_sessions"})

Working ==
    [env |-> Unset, bind |-> Unset, url |-> "otdel_app", admin |-> "set",
     hash |-> "argon2", slug |-> Unset, storage |-> "usable", origins |-> Unset,
     ttl |-> Unset, idle |-> Unset, cookie |-> Unset, secure |-> Unset,
     upload |-> Unset, failures |-> Unset, window |-> Unset, lockout |-> Unset,
     connections |-> Unset]

MCEnvironments ==
    {Working,
     [Working EXCEPT !.connections = 0, !.failures = 0, !.ttl = 60, !.idle = 60,
                     !.window = 0, !.lockout = Blank],
     [Working EXCEPT !.failures = U32Max + 1],
     [Working EXCEPT !.connections = U32Max + 1], [Working EXCEPT !.lockout = Junk],
     [Working EXCEPT !.url = "auditor"], [Working EXCEPT !.url = "migrator"],
     [Working EXCEPT !.url = "placeholder"], [Working EXCEPT !.url = Blank],
     [Working EXCEPT !.slug = "pilot", !.env = "production"],
     [Working EXCEPT !.slug = "overlong", !.admin = Blank],
     [Working EXCEPT !.env = "production", !.secure = "off"],
     [Working EXCEPT !.env = Blank], [Working EXCEPT !.origins = "star"],
     [Working EXCEPT !.ttl = 60], [Working EXCEPT !.ttl = 60, !.idle = 59],
     [Working EXCEPT !.ttl = 604801], [Working EXCEPT !.idle = Junk],
     [Working EXCEPT !.storage = "unusable"], [Working EXCEPT !.upload = 0]}

\* Requests and an administrator's commands touch none of the same variables,
\* so their steps commute: requests are explored beside a ready server after
\* the commands are over.
Focus ==
    (server = "serving" /\ \E q \in Requests : pc[q] # "idle") =>
        /\ readiness = "ready"
        /\ commands = MaxCommands /\ \A o \in Operators : command[o] = "none"
=============================================================================
