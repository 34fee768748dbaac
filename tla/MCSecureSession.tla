--------------------------- MODULE MCSecureSession ---------------------------
(* Clients of node alpha that ask for node beta: with the authorized key in *)
(* each mode, and one with another key; server runs of beta.                *)
EXTENDS SecureSession

CONSTANTS alpha, beta, alphaKey, betaKey, otherKey,
          auto, relayed, direct, impostor,
          WrongRuns  \* server runs started with a key that is not authorized

AuthorizedKeys == [n \in {alpha, beta} |->
                      IF n = alpha THEN alphaKey ELSE betaKey]
NodeOf == [c \in Client |-> alpha]
PeerOf == [c \in Client |-> beta]
KeyOf == [c \in Client |-> IF c = impostor THEN otherKey ELSE alphaKey]
ModeOf == [c \in Client |-> IF c \in {auto, impostor} THEN "auto"
                            ELSE IF c = relayed THEN "relay" ELSE "direct"]

\* Answers of other services.  One that is not UTF-8, to an automatic client,
\* is kept for fallback_after_response.
StraysOf == {<<auto, "direct", "TEXT">>, <<relayed, "relay", "BYTES">>}
BytesDirect == {<<auto, "direct", "BYTES">>}
RunKeyOf == [n \in Run |-> IF n \in WrongRuns THEN otherKey ELSE betaKey]
=============================================================================
