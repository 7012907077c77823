SPECIFICATION Spec
CONSTANTS
    player = player
    healer = healer
    dead = dead
    corpse = corpse
    rebirth = rebirth
    slam = slam
    strike = strike
    shot = shot
    Player = player
    Casters = {player, healer}
    Units = {dead}
    Corpses = {corpse}
    Owner <- MCOwner
    Spells = {rebirth, slam, strike, shot}
    Flags <- MCFlags
    CastTimes = {0, 1}
    AttackTimeMs <- MCAttackTimeMs
    UnhastedDelayMs <- MCUnhastedDelayMs
    Ticks = 32
    Starts = {0, 29}
    MaxTime = 4
    WeaponSets <- MCWeaponSets
    ActsWhilePaused = FALSE
    BackWithinAFrame = FALSE
    CorpsesMove = FALSE
    StartsInCast = FALSE
    MaxPackets = 4
INVARIANT TypeOK TracksServer BarsAreRight ShowsTheCasts ToldOfEachChange
CHECK_DEADLOCK FALSE
