--------------------------- MODULE MCMisskeyNotes ---------------------------
(* Two notes, b without text or image, and up to three handlers.             *)
EXTENDS MisskeyNotes

CONSTANTS a, b, h1, h2, h3
=============================================================================
