--------------------------- MODULE MCChannelPipeline ---------------------------
(* Small instances of ChannelPipeline: a mail is named after its class, a      *)
(* processor after its kind and its channel.                                   *)
EXTENDS ChannelPipeline

MCClass == [m \in Mail |-> CASE m \in {"reply", "reply2"} -> "reply" [] OTHER -> m]
MCBox == [m \in Mail |-> "mailbox"]
MCKind == [p \in Processor |-> CASE p \in {"ticket", "ticketWeb"} -> "ticket"
                                 [] p = "test" -> "test" [] OTHER -> "external"]
MCOwner == [p \in Processor |-> IF p = "ticketWeb" THEN "page" ELSE "mailbox"]
=============================================================================
