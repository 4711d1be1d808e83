------------------------------ MODULE Signing ------------------------------
(***************************************************************************)
(* Signed and encrypted messages (pkg/signing).  A message is a term: a    *)
(* plain text, a text signed with a key, or a message encrypted for a key; *)
(* the signature and encryption library is taken at its word (a signature  *)
(* verifies with the key it was made with and with no other).  A text      *)
(* names its sender, and says whether it is JSON and whether the object it *)
(* is decoded into has a field for the sender.                             *)
(***************************************************************************)
NoKey == "nokey"
NoSender == ""

Plain(text) == [form |-> "plain", text |-> text]
Signed(text, key) == [form |-> "signed", text |-> text, key |-> key]
Encrypted(message, key) == [form |-> "encrypted", message |-> message, key |-> key]
NoMessage == [form |-> "none"]

CreateJWSSignature(text, key) ==
  IF key = NoKey THEN [message |-> NoMessage, err |-> TRUE]
                 ELSE [message |-> Signed(text, key), err |-> FALSE]

\* On an error the message itself is returned, not encrypted.
EncryptMessage(message, key) ==
  IF key = NoKey THEN [message |-> message, err |-> TRUE]
                 ELSE [message |-> Encrypted(message, key), err |-> FALSE]

SignAndEncrypt(text, myKey, key) ==
  LET s == CreateJWSSignature(text, myKey)
  IN  IF s.err THEN s ELSE EncryptMessage(s.message, key)

\* The comment promises the input message when it is not encrypted; the error
\* of the parser comes with it.
DecryptMessage(message, key) ==
  IF message.form # "encrypted"
  THEN [message |-> message, isEncrypted |-> FALSE, err |-> TRUE]
  ELSE IF message.key = key
  THEN [message |-> message.message, isEncrypted |-> TRUE, err |-> FALSE]
  ELSE [message |-> NoMessage, isEncrypted |-> TRUE, err |-> TRUE]

Verified(isSigned, err) == [isSigned |-> isSigned, err |-> err]

VerifyJWSMessage(message, key) == key # NoKey /\ message.form = "signed" /\ message.key = key

\* Defect: the key of the sender is looked up and not used.
VerifyNoCheck(message, keyOf, haveKeys) ==
  Verified(message.form = "signed", message.form # "signed" /\ ~message.text.json)

\* keyOf is the application's getPublicKey; without one every signature passes.
VerifySenderJWSSignature(message, keyOf, haveKeys) ==
  IF message.form # "signed" THEN Verified(FALSE, message.form # "plain" \/ ~message.text.json)
  ELSE LET text == message.text
       IN  Verified(TRUE, \/ ~text.json
                          \/ ~text.hasSender
                          \/ text.sender = NoSender
                          \/ haveKeys /\ ~VerifyJWSMessage(message, keyOf[text.sender]))

DecodeMessage(message, myKey, keyOf, haveKeys) ==
  LET d == DecryptMessage(message, myKey)
      v == VerifySenderJWSSignature(d.message, keyOf, haveKeys)
  IN  IF d.err THEN [isEncrypted |-> FALSE, isSigned |-> FALSE, err |-> TRUE]
      ELSE [isEncrypted |-> d.isEncrypted, isSigned |-> v.isSigned, err |-> v.err]
=============================================================================
