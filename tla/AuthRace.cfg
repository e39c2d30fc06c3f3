SPECIFICATION Spec
CONSTANTS
    enter = enter
    wrong = wrong
    wrong2 = wrong2
    stranger = stranger
    leave = leave
    check = check
    alter = alter
    forget = forget
    reset = reset
    reset2 = reset2
    ann = ann
    bob = bob
    school = school
    phone = phone
    letter = letter
    old = old
    new = new
    other = other
    Calls = {enter, alter}
    Kind <- MCKind
    People = {ann}
    MailOf <- MCMailOf
    Address <- MCAddress
    Given <- MCGiven
    Chosen <- MCChosen
    FirstSecret <- MCFirstSecret
    Devices = {phone}
    Links = {}
    OwnerOf <- MCOwnerOf
    None = None
    Nobody = Nobody
    Limit <- MCLimit
    Window = 1
    SessionLife = 1
    LinkLife = 1
    Meetings <- MCTogether
    MaxTime = 0
INVARIANTS
    LiveSessionsKnowThePassword
