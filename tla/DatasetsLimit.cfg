SPECIFICATION DSpec
CONSTANTS
    Threads = {t1}
    Deadline = 1
    NONE = NONE
    Principals = {ann}
    Names = {d1}
    Uploads = {u1}
    Files = {"csv", "parquet"}
    Payloads = {"rows", "more"}
    Parses <- Tables
INVARIANTS
    LimitErrorMeansLimit
