SPECIFICATION Spec
CONSTANTS
    Request = {"r1", "r2", "r3", "r4", "r5"}
    Key = {"k1", "k2"}
    KeyOf <- MCKeyOf
    Fingerprint <- MCFingerprint
    None = "none"
    Inline = {"r2", "r5"}
    LeaseTime = 1
    MaxTime = 3
INVARIANTS SameAnswer NewestLeaseCommits InlineKeepsLease InlineEffectIffCommitted
PROPERTIES ImplementsIdempotentKey
