------------------------------ MODULE MCWorker ------------------------------
(* Worker for TLC.  The stream is somebody's QUIT and a PRIVMSG; torn in   *)
(* the right places they read as a QUIT and a PRIVMSG without a source.    *)
EXTENDS Worker

Quit    == <<":", "u", "!", " ", "QUIT", " ", "w", "LF">>
Privmsg == <<":", "u", "!", " ", "PRIVMSG", " ", "c", " ", "w", "CR", "LF">>

Messages == Quit \o Privmsg
=============================================================================
