------------------------------ MODULE KeyVault ------------------------------
(***************************************************************************)
(* Microsoft.KeyVault (internal/services/keyvault): vaults, kept by the    *)
(* control plane, and the secrets, keys and certificates of the data       *)
(* plane, which never looks at the vaults.                                 *)
(***************************************************************************)
EXTENDS ArmStore

CONSTANTS
    VaultNames,
    ItemNames,    \* names of secrets, keys and certificates
    Values,       \* of secrets, and contents stored as they are
    Seconds       \* what the wall clock may show, which can be set back

-----------------------------------------------------------------------------

Vault(v) == <<"keyvault.vaults", v>>
Secret(v, n) == <<"keyvault.secrets", v, n>>
Key(v, n) == <<"keyvault.keys", v, n>>
Certificate(v, n) == <<"keyvault.certificates", v, n>>

PutVault(c, v, b) == Putting(c, Vault(v), [policies |-> b])

\* The vault goes; what the data plane stored under its name stays.
DeleteVault(c, v) == Deleting(c, Vault(v))

\* A broken SetSecret: it does not look for the secret.
SetSecretAnew(c, v, n, value, now) ==
    Putting(c, Secret(v, n), [value |-> value, created |-> now, updated |-> now])

\* A new value for a secret keeps the time of its creation.
SetSecret(c, v, n, value, now) ==
    LET k == Secret(v, n)
    IN  Putting(c, k, [value |-> value, created |-> Kept(k, "created", now), updated |-> now])
DeleteSecret(c, v, n) == Deleting(c, Secret(v, n))

\* A key put again is another key: a new version, created now.
CreateKey(c, v, n, version, now) ==
    Putting(c, Key(v, n), [version |-> version, created |-> now, updated |-> now])
DeleteKey(c, v, n) == Deleting(c, Key(v, n))

CreateCertificate(c, v, n, thumbprint, now) ==
    Putting(c, Certificate(v, n), [thumbprint |-> thumbprint, created |-> now, updated |-> now])
DeleteCertificate(c, v, n) == Deleting(c, Certificate(v, n))

-----------------------------------------------------------------------------

VaultNext(c) ==
    \/ \E v \in VaultNames, b \in Values : PutVault(c, v, b)
    \/ \E v \in VaultNames : DeleteVault(c, v)
    \/ \E v \in VaultNames, n \in ItemNames :
          \/ \E x \in Values, now \in Seconds :
                \/ SetSecret(c, v, n, x, now)
                \/ CreateKey(c, v, n, x, now)
                \/ CreateCertificate(c, v, n, x, now)
          \/ DeleteSecret(c, v, n)
          \/ DeleteKey(c, v, n)
          \/ DeleteCertificate(c, v, n)
=============================================================================
