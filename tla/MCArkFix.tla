----------------------------- MODULE MCArkFix ------------------------------
(* Two `ark fix' on one pid, one `ark zap' and one client that streams.      *)
EXTENDS ArkFix

MCAnswers == {<<{"gpu", "oom"}>>, <<{"network"}, {"crash"}>>, <<>>}
=============================================================================
