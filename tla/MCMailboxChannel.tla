-------------------------- MODULE MCMailboxChannel --------------------------
(* MailboxChannel with 64-byte rings: three minimal packages fit before a *)
(* wrap, so TOMBSTONEs occur on both rings within the bounds, and two ids *)
(* let the id space run out while requests are outstanding.                *)
EXTENDS MailboxChannel

MCRingSize == 64
MCMaxIds == 2
MCReqPayloads == {0, 16}
\* With a send_size that xdna_mailbox_send_msg refuses: 16 + 52 > 64.
MCCallerSizes == {0, 16, 52}
MCRespPayloads == {0, 8}
\* Header-only packages: the fewest bytes per message.
MCSmallPayloads == {0}
=============================================================================
