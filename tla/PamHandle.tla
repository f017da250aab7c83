------------------------------ MODULE PamHandle ------------------------------
(***************************************************************************)
(* What the PAM handle gives a module: strings (pam_helpers.rs) and answers*)
(* of the conversation function (pam_conv.rs), as functions of what the    *)
(* application behind the handle does.                                     *)
(***************************************************************************)

\* A string item as PAM returns it.
Item == [rc_ok : BOOLEAN, text : {"null", "empty", "bytes", "utf8"}]

\* pam_get_user_string and pam_get_service_string: an empty string is a value.
RequiredString(item) ==
    CASE ~item.rc_ok -> "PamRc"
      [] item.rc_ok /\ item.text = "null" -> "Null"
      [] item.rc_ok /\ item.text = "bytes" -> "NonUtf8"
      [] OTHER -> "some"

\* The conversation: the item is missing, holds no function, or can be called
\* and answers with a code, perhaps a response and perhaps a text.
Conversation ==
    [conv : {"missing", "no_function", "callable"}, prompt_ok : BOOLEAN, rc_ok : BOOLEAN,
     response : BOOLEAN, text : {"null", "empty", "bytes", "utf8"}]

\* prompt_pin: an empty PIN is a PIN.
PromptPin(c) ==
    CASE c.conv # "callable" -> "NoConv"
      [] c.conv = "callable" /\ ~(c.prompt_ok /\ c.rc_ok /\ c.response) -> "ConvFailed"
      [] c.conv = "callable" /\ c.prompt_ok /\ c.rc_ok /\ c.response /\ c.text = "null" -> "ConvFailed"
      [] c.conv = "callable" /\ c.prompt_ok /\ c.rc_ok /\ c.response /\ c.text = "bytes" -> "NonUtf8"
      [] OTHER -> "pin"

\* The results a prompt may have.
Prompts == {PromptPin(c) : c \in Conversation}

=============================================================================
