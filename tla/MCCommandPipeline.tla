-------------------------- MODULE MCCommandPipeline --------------------------
(* Instances of CommandPipeline for TLC: c1 and c2 change the same row, and *)
(* a handler of c1's event sends c3, which changes that row or another one. *)
EXTENDS CommandPipeline

CONSTANTS c1, c2, c3, r1, r2

MCRowsOf == [c \in {c1, c2, c3} |-> IF c = c3 THEN {r1, r2} ELSE {r1}]
MCParent == [c \in {c1, c2, c3} |-> IF c = c3 THEN c1 ELSE NoCommand]
MCTypeOf == [c \in {c1, c2, c3} |-> IF c = c3 THEN "FollowUp" ELSE "Change"]
MCEventOf == [c \in {c1, c2, c3} |-> IF c = c1 THEN "Changed" ELSE "Quiet"]
MCRoleOf == [ChangeHandler |-> "plain", FollowUpHandler |-> "plain", Recorder |-> "recorder", Sender |-> "sender"]
MCBehaviors == <<"Logging", "Tracing", "Metrics", "Validation", "Authorization", "Transaction",
                 "Retry", "ExceptionTranslation">>

Typed(name, kind, target) ==
  Implements(name, <<[kind |-> "other", target |-> "none"], [kind |-> kind, target |-> target]>>)
Handlers2 == <<Typed("ChangeHandler", "command", "Change"), Typed("FollowUpHandler", "command", "FollowUp")>>
Sender == Stamp("Sender", "event", "Changed")
Events2 == <<Sender, Stamp("Recorder", "event", "Changed"), Inherits("SpecialSender", Sender)>>

\* Usual startup; the event module scanned twice; a command that nobody handles;
\* and two handlers for one command, which ends the startup.
MCStartups ==
  {<<[via |-> "typed", classes |-> Handlers2], [via |-> "scan", classes |-> Events2]>>,
   <<[via |-> "scan", classes |-> Events2 \o Events2],
     [via |-> "scan", classes |-> <<Events2[2]>>],
     [via |-> "explicit", kind |-> "command", target |-> "Change", name |-> "ChangeHandler"]>>,
   <<[via |-> "typed", classes |-> Handlers2],
     [via |-> "explicit", kind |-> "command", target |-> "Change", name |-> "FollowUpHandler"]>>}

MCMessages ==
  {[valid |-> TRUE, principal |-> TRUE, policies |-> Requires(<<"allow">>, <<"unknown">>)],
   [valid |-> TRUE, principal |-> FALSE, policies |-> Requires(<<>>, <<"allow">>)],
   [valid |-> TRUE, principal |-> TRUE, policies |-> <<"allow", "deny">>],
   [valid |-> FALSE, principal |-> TRUE, policies |-> <<>>]}
=============================================================================
