------------------------------ MODULE MCAutoPost ------------------------------
EXTENDS AutoPost

CONSTANTS misskey, nostr
==============================================================================
