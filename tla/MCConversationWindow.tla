----------------------- MODULE MCConversationWindow -----------------------
(* A mailbox of up to five messages and pages of two: the window slides, a *)
(* pull finds a full page, and a burst can be larger than a page.          *)
EXTENDS ConversationWindow
=============================================================================
