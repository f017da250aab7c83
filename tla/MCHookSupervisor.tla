-------------------------- MODULE MCHookSupervisor --------------------------
(* Two hooks of a stage; what is known of the login ranges over a smart     *)
(* card, a medium, a certificate whose name holds a control character, and  *)
(* a user unknown to the host.                                              *)
EXTENDS HookSupervisor

Cert == {"cert_cn", "cert_serial"}

MCLogins ==
    {[context |-> Cert, unclean |-> {}, account |-> "exists"],
     [context |-> ContextVars, unclean |-> {}, account |-> "missing"],
     [context |-> Cert, unclean |-> {"cert_cn"}, account |-> "exists"]}

MCEnvs == {{}, {"pam_user"}, {"cert_cn", "usb_serial"}, {"session_id"}, {"pam_usr"}}

=============================================================================
