SPECIFICATION DSpec
CONSTANTS
    Threads = {t1, t2}
    Deadline = 1
    NONE = NONE
    Principals = {ann}
    Names = {d1}
    Uploads = {u1, u2}
    Files = {"csv", "parquet"}
    Payloads = {"rows", "more"}
    Parses <- Tables
INVARIANTS
    RegistryAgrees
    ChildEndsWithCall
PROPERTIES
    UploadsSettle
    TombstonedForGood
    CachedIsComputed
    RequestsEnd
