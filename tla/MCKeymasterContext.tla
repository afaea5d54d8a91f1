------------------------- MODULE MCKeymasterContext -------------------------
(* A small instance of KeymasterContext for TLC.                           *)
EXTENDS KeymasterContext

(* Description tags when checking that version tags are upgraded: only    *)
(* the algorithm matters there.                                            *)
MCNoDescTags == {}

(* One tag SetAuthorizations rejects (a description may also carry none). *)
MCErrTags == {"NONCE"}

(* One hw-enforced and one sw-enforced tag, for the identity of a key.    *)
MCStoreTags == {"PURPOSE", "USER_ID"}
=============================================================================
