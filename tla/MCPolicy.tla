------------------------------- MODULE MCPolicy -------------------------------
(***************************************************************************)
(* Policy on small rule sets: rules that overlap, that share identifiers,  *)
(* that expire, and one of every kind that validation refuses.             *)
(***************************************************************************)
EXTENDS Policy

MCRequests ==
    {r \in [operation : Operations, kind : {"ApiKey", "PrivateKey"}, sensitivity : Sensitivities,
            source : {"Environment", "File", "Unknown", "Unsupported"},
            destination : {"ModelProvider", "Agent", "ChildProcess", "File", "TrustedLocal"}] :
        r.operation = "Restore" => r.kind = "ApiKey"}

On(operation, destination) ==
    [operation |-> operation, destination |-> destination, kind |-> Any,
     sensitivity |-> Any, source |-> Any]

MCDenyRules ==
    {[id |-> 1, scope |-> On("Restore", "ChildProcess")],
     [id |-> 2, scope |-> [On("Disclose", "File") EXCEPT !.sensitivity = Confidential]],
     [id |-> 3, scope |-> [On("Disclose", "Agent") EXCEPT !.source = "Unsupported"]]}

Rule(id, scope, expiry) ==
    [id |-> id, scope |-> scope, reason |-> "RequiredOperation", expires_at |-> expiry]

MCAllowRules ==
    {Rule(2, [On("Restore", "ChildProcess") EXCEPT !.kind = "ApiKey"], 1),
     Rule(4, [On("Disclose", "File") EXCEPT !.source = "File"], 2),
     Rule(5, [On("Disclose", "ModelProvider") EXCEPT !.sensitivity = Secret], Never),
     Rule(6, [On("Restore", "Agent") EXCEPT !.kind = "ApiKey"], Never),
     Rule(7, On("Disclose", "User"), Never)}

=============================================================================
