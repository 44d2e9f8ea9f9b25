SPECIFICATION Spec
CONSTANTS
    web = web
    db = db
    http = http
    psql = psql
    Containers = {web}
    Ports = {http}
    Nobody = Nobody
    MaxRm = 1
CHECK_DEADLOCK FALSE
PROPERTIES RmRemoves
