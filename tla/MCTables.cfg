SPECIFICATION Spec
CONSTANTS
    grant_object = grant_object
    task_object = task_object
    endpoint_object = endpoint_object
    file_object = file_object
    device_object = device_object
    queue_object = queue_object
    no_object = no_object
    read_right = read_right
    write_right = write_right
    send_right = send_right
    bind_right = bind_right
    revoke_right = revoke_right
    nothing = nothing
    nullptr = nullptr
INVARIANTS
    TablesTypeOK
    TokensReachTheirOwn
    AccessStaysInsideGrant
    FailuresGiveBack
CHECK_DEADLOCK FALSE
