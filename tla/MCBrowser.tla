------------------------------ MODULE MCBrowser -----------------------------
(* Model-checking instance of Browser: see MCBrowser_page.cfg.             *)
EXTENDS Browser

MCLines == 1 :> 7
MCUsers == {{"still"}, {"patient"}}
MCReplies == {
  <<<<"open", "text", "close", "quoted", "close", "text", "text", "text", "text",
      "open", "newline", "close", "loose", "close", "other", "text", "close", "text">>>>
}
=============================================================================
