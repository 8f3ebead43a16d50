SPECIFICATION Spec
CONSTANTS
    Request = {q1, q2}
    q1 = q1
    q2 = q2
    first = first
    second = second
    Call <- MCCall
    Writes <- MCWrites
    Signature <- MCSignature
    IdLike = {"item_id"}
    Named <- MCNamed
    Mentioned <- MCMentioned
    RowArg <- MCRowArg
    Extra <- MCExtra
    Patterns <- MCPatterns
    Falsy <- MCFalsy
    Backends = {redis, memcached, none}
    Redis = redis
    Memcached = memcached
    redis = redis
    memcached = memcached
    none = none
    Page = 1
    MaxVersion = 2
    None = none
SYMMETRY MCSymmetry
INVARIANTS
    TypeOK
    AnswersAreFresh
